---------------------------- MODULE Spec2Model ----------------------------
(* A model of the telnet codec: the byte constants and option table, the   *)
(* resumable Parser (parse.rs), the formatter (format.rs), the read path   *)
(* of the Telnet facade (lib.rs) and the Q method state machine            *)
(* (negotiation.rs), alone and between two connected peers.                *)
(* Indices are 0-based as in the source; a TLA+ sequence is 1-based, so    *)
(* buffer[i] of the source is buffer[i + 1] here.                          *)
EXTENDS Integers, Sequences, FiniteSets, TLC

(***************************************************************************)
(* byte.rs                                                                 *)
(***************************************************************************)
BYTE_IAC == 255
BYTE_DONT == 254
BYTE_DO == 253
BYTE_WONT == 252
BYTE_WILL == 251
BYTE_SB == 250
BYTE_SE == 240

(***************************************************************************)
(* Bounds of the model                                                     *)
(***************************************************************************)
\* total number of bytes fed to the streaming parser
MaxInput == 5
\* total number of bytes fed to the parser in the streams of frame bytes
MaxFrameInput == 7
\* longest buffer handed to one Parser::parse call
MaxChunk == 3
\* total number of bytes the transport of a Telnet returns
MaxWire == 4
\* largest buf_size a Telnet is built with
MaxBufSize == 3
\* longest source buffer / parameter list handed to the formatter
MaxSrc == 4

\* number of requests the local users of two connected peers make
MaxRequests == 4
\* most negotiations in flight to one peer when a local request is made
MaxFlight == 2
\* the bytes a transport returns to the three read calls, and the largest
\* buf_size of that harness
MaxReadWire == 4
MaxReadBuf == 4
\* the write_all calls of a write call, one of which the stream fails
MaxFailAt == 3
\* the calls made on the stream under a ZlibStream, and the bytes of a buffer
MaxZCalls == 3
MaxZBuf == 2
\* the buf_size of a TelnetConnection and the reads it processes
MaxConnBuf == 4
MaxConnReads == 2

\* the bytes the streaming parser is fed: a data byte that is also a named
\* option (1 = Echo), SE (also an unknown option and an unknown command),
\* SB, a negotiation action and IAC (also the option EXOPL)
StreamByte == {1, BYTE_SE, BYTE_SB, BYTE_WILL, BYTE_IAC}
\* the bytes of sub-negotiation frames: SE, SB and IAC; each is also an
\* option byte, and SE and SB are plain bytes of data and of payloads
FrameByte == {BYTE_SE, BYTE_SB, BYTE_IAC}
\* the bytes of formatter inputs
SrcByte == {1, BYTE_SE, BYTE_IAC}
\* the bytes a transport returns to the three read calls
ReadByte == {1, BYTE_IAC}

RECURSIVE SeqsUpTo(_, _)
SeqsUpTo(S, n) ==
    IF n = 0 THEN {<<>>}
    ELSE LET shorter == SeqsUpTo(S, n - 1)
         IN  shorter \cup {Append(s, b) : s \in {t \in shorter : Len(t) = n - 1}, b \in S}

\* &buffer[a..b] of the source
Slice(buffer, a, b) == SubSeq(buffer, a + 1, b)

(***************************************************************************)
(* option.rs: TelnetOption                                                 *)
(***************************************************************************)
\* the telnet_options! table, byte => variant
OptionTable ==
    << <<0, "TransmitBinary">>, <<1, "Echo">>, <<2, "Reconnection">>,
       <<3, "SuppressGoAhead">>, <<4, "ApproxMessageSizeNeg">>, <<5, "Status">>,
       <<6, "TimingMark">>, <<7, "RCTE">>, <<8, "OutLineWidth">>,
       <<9, "OutPageSize">>, <<10, "NAOCRD">>, <<11, "NAOHTS">>,
       <<12, "NAOHTD">>, <<13, "NAOFFD">>, <<14, "NAOVTS">>, <<15, "NAOVTD">>,
       <<16, "NAOLFD">>, <<17, "XASCII">>, <<18, "Logout">>, <<19, "ByteMacro">>,
       <<20, "DET">>, <<21, "SUPDUP">>, <<22, "SUPDUPOutput">>, <<23, "SNDLOC">>,
       <<24, "TTYPE">>, <<25, "EOR">>, <<26, "TUID">>, <<27, "OUTMRK">>,
       <<28, "TTYLOC">>, <<29, "OPT3270Regime">>, <<30, "X3PAD">>, <<31, "NAWS">>,
       <<32, "TSPEED">>, <<33, "LFLOW">>, <<34, "Linemode">>, <<35, "XDISPLOC">>,
       <<36, "Environment">>, <<37, "Authentication">>, <<38, "Encryption">>,
       <<39, "NewEnvironment">>, <<70, "MSSP">>, <<85, "Compress">>,
       <<86, "Compress2">>, <<93, "ZMP">>, <<255, "EXOPL">> >>

\* a TelnetOption value: <<variant>> for a named option, <<"UnknownOption", byte>>
UnknownOption(byte) == <<"UnknownOption", byte>>

\* mutant: the last arm of the table, 255 => EXOPL, left out
TelnetOption_parse_no_exopl(byte) ==
    IF \E k \in 1..(Len(OptionTable) - 1) : OptionTable[k][1] = byte
    THEN LET k == CHOOSE k \in 1..(Len(OptionTable) - 1) : OptionTable[k][1] = byte
         IN  <<OptionTable[k][2]>>
    ELSE UnknownOption(byte)

\* TelnetOption::parse
TelnetOption_parse(byte) ==
    IF \E k \in 1..Len(OptionTable) : OptionTable[k][1] = byte
    THEN LET k == CHOOSE k \in 1..Len(OptionTable) : OptionTable[k][1] = byte
         IN  <<OptionTable[k][2]>>
    ELSE UnknownOption(byte)

\* mutant: the position of the variant in the enum instead of its byte
TelnetOption_as_byte_discriminant(opt) ==
    IF opt[1] = "UnknownOption" THEN opt[2]
    ELSE (CHOOSE k \in 1..Len(OptionTable) : OptionTable[k][2] = opt[1]) - 1

\* TelnetOption::as_byte (to_byte in format.rs)
TelnetOption_as_byte(opt) ==
    IF opt[1] = "UnknownOption" THEN opt[2]
    ELSE LET k == CHOOSE k \in 1..Len(OptionTable) : OptionTable[k][2] = opt[1]
         IN  OptionTable[k][1]

(***************************************************************************)
(* negotiation.rs: NegotiationAction                                       *)
(***************************************************************************)
NegotiationAction == {"Will", "Wont", "Do", "Dont"}

\* mutant: the bytes of Do and Dont exchanged
NegotiationAction_to_byte_swapped(action) ==
    CASE action = "Will" -> BYTE_WILL
      [] action = "Wont" -> BYTE_WONT
      [] action = "Do"   -> BYTE_DONT
      [] action = "Dont" -> BYTE_DO

\* NegotiationAction::to_byte
NegotiationAction_to_byte(action) ==
    CASE action = "Will" -> BYTE_WILL
      [] action = "Wont" -> BYTE_WONT
      [] action = "Do"   -> BYTE_DO
      [] action = "Dont" -> BYTE_DONT

(***************************************************************************)
(* Events of the parser. last is a ghost field: the offset, in the buffer   *)
(* handed to parse, of the last input byte the event was cut from.         *)
(***************************************************************************)
NoOpt == <<>>

Event_Data(data, last) ==
    [kind |-> "Data", action |-> "-", opt |-> NoOpt, data |-> data, byte |-> 0, last |-> last]
Event_UnknownIAC(byte, last) ==
    [kind |-> "UnknownIAC", action |-> "-", opt |-> NoOpt, data |-> <<>>, byte |-> byte, last |-> last]
Event_Negotiation(action, opt, last) ==
    [kind |-> "Negotiation", action |-> action, opt |-> opt, data |-> <<>>, byte |-> 0, last |-> last]
Event_Subnegotiation(opt, data, last) ==
    [kind |-> "Subnegotiation", action |-> "-", opt |-> opt, data |-> data, byte |-> 0, last |-> last]
Event_Error(byte, last) ==
    [kind |-> "Error", action |-> "-", opt |-> NoOpt, data |-> <<>>, byte |-> byte, last |-> last]

(***************************************************************************)
(* parse.rs: ParsingState and Parser                                       *)
(***************************************************************************)
NormalData(data_start) ==
    [tag |-> "NormalData", data_start |-> data_start, action |-> "-",
     opt |-> NoOpt, data |-> <<>>, iac |-> FALSE]
IAC ==
    [tag |-> "IAC", data_start |-> 0, action |-> "-",
     opt |-> NoOpt, data |-> <<>>, iac |-> FALSE]
SB ==
    [tag |-> "SB", data_start |-> 0, action |-> "-",
     opt |-> NoOpt, data |-> <<>>, iac |-> FALSE]
SBData(opt, data, iac) ==
    [tag |-> "SBData", data_start |-> 0, action |-> "-",
     opt |-> opt, data |-> data, iac |-> iac]
Negotiation(action) ==
    [tag |-> "Negotiation", data_start |-> 0, action |-> action,
     opt |-> NoOpt, data |-> <<>>, iac |-> FALSE]

\* Parser::new
Parser_new == NormalData(0)

\* mutant: the Data before an IAC is sent also when it is empty
parse_byte_NormalData_empty(st, buffer, index) ==
    LET byte == buffer[index + 1]
    IN  IF byte = BYTE_IAC
        THEN [state |-> IAC,
              ev |-> IF st.data_start <= index
                     THEN <<Event_Data(Slice(buffer, st.data_start, index), index - 1)>>
                     ELSE <<>>]
        ELSE [state |-> st, ev |-> <<>>]

\* the NormalData arm of parse_byte
parse_byte_NormalData(st, buffer, index) ==
    LET byte == buffer[index + 1]
    IN  IF byte = BYTE_IAC
        THEN [state |-> IAC,
              ev |-> IF st.data_start < index
                     THEN <<Event_Data(Slice(buffer, st.data_start, index), index - 1)>>
                     ELSE <<>>]
        ELSE [state |-> st, ev |-> <<>>]

\* mutant: the byte of an unknown command is kept as the start of the data run
parse_byte_IAC_keep_command(st, buffer, index) ==
    LET byte == buffer[index + 1]
    IN  CASE byte = BYTE_WILL -> [state |-> Negotiation("Will"), ev |-> <<>>]
          [] byte = BYTE_WONT -> [state |-> Negotiation("Wont"), ev |-> <<>>]
          [] byte = BYTE_DO   -> [state |-> Negotiation("Do"), ev |-> <<>>]
          [] byte = BYTE_DONT -> [state |-> Negotiation("Dont"), ev |-> <<>>]
          [] byte = BYTE_SB   -> [state |-> SB, ev |-> <<>>]
          [] byte = BYTE_IAC  -> [state |-> NormalData(index), ev |-> <<>>]
          [] OTHER -> [state |-> NormalData(index),
                       ev |-> <<Event_UnknownIAC(byte, index)>>]

\* mutant: the escaped 0xFF is left out of the data run that follows
parse_byte_IAC_drop_escape(st, buffer, index) ==
    LET byte == buffer[index + 1]
    IN  CASE byte = BYTE_WILL -> [state |-> Negotiation("Will"), ev |-> <<>>]
          [] byte = BYTE_WONT -> [state |-> Negotiation("Wont"), ev |-> <<>>]
          [] byte = BYTE_DO   -> [state |-> Negotiation("Do"), ev |-> <<>>]
          [] byte = BYTE_DONT -> [state |-> Negotiation("Dont"), ev |-> <<>>]
          [] byte = BYTE_SB   -> [state |-> SB, ev |-> <<>>]
          [] byte = BYTE_IAC  -> [state |-> NormalData(index + 1), ev |-> <<>>]
          [] OTHER -> [state |-> NormalData(index + 1),
                       ev |-> <<Event_UnknownIAC(byte, index)>>]

\* the IAC arm of parse_byte
parse_byte_IAC(st, buffer, index) ==
    LET byte == buffer[index + 1]
    IN  CASE byte = BYTE_WILL -> [state |-> Negotiation("Will"), ev |-> <<>>]
          [] byte = BYTE_WONT -> [state |-> Negotiation("Wont"), ev |-> <<>>]
          [] byte = BYTE_DO   -> [state |-> Negotiation("Do"), ev |-> <<>>]
          [] byte = BYTE_DONT -> [state |-> Negotiation("Dont"), ev |-> <<>>]
          [] byte = BYTE_SB   -> [state |-> SB, ev |-> <<>>]
          [] byte = BYTE_IAC  -> [state |-> NormalData(index), ev |-> <<>>]
          [] OTHER -> [state |-> NormalData(index + 1),
                       ev |-> <<Event_UnknownIAC(byte, index)>>]

\* mutant: an option byte 0xFF is taken for an IAC
parse_byte_Negotiation_iac(st, buffer, index) ==
    LET byte == buffer[index + 1]
    IN  IF byte = BYTE_IAC
        THEN [state |-> IAC, ev |-> <<>>]
        ELSE [state |-> NormalData(index + 1),
              ev |-> <<Event_Negotiation(st.action, TelnetOption_parse(byte), index)>>]

\* the Negotiation arm of parse_byte
parse_byte_Negotiation(st, buffer, index) ==
    LET byte == buffer[index + 1]
    IN  [state |-> NormalData(index + 1),
         ev |-> <<Event_Negotiation(st.action, TelnetOption_parse(byte), index)>>]

\* the SB arm of parse_byte
parse_byte_SB(st, buffer, index) ==
    LET byte == buffer[index + 1]
    IN  [state |-> SBData(TelnetOption_parse(byte), <<>>, FALSE), ev |-> <<>>]

\* mutant: IAC IAC inside a sub-negotiation appends nothing
parse_byte_SBData_no_unescape(st, buffer, index) ==
    LET byte == buffer[index + 1]
    IN  IF st.iac
        THEN CASE byte = BYTE_SE ->
                    [state |-> NormalData(index + 1),
                     ev |-> <<Event_Subnegotiation(st.opt, st.data, index)>>]
               [] byte = BYTE_IAC ->
                    [state |-> SBData(st.opt, st.data, FALSE), ev |-> <<>>]
               [] OTHER ->
                    [state |-> SBData(st.opt, st.data, FALSE),
                     ev |-> <<Event_Error(byte, index)>>]
        ELSE IF byte = BYTE_IAC
             THEN [state |-> SBData(st.opt, st.data, TRUE), ev |-> <<>>]
             ELSE [state |-> SBData(st.opt, Append(st.data, byte), FALSE), ev |-> <<>>]

\* mutant: the parser gives up the frame at the unexpected byte
parse_byte_SBData_aborts(st, buffer, index) ==
    LET byte == buffer[index + 1]
    IN  IF st.iac
        THEN CASE byte = BYTE_SE ->
                    [state |-> NormalData(index + 1),
                     ev |-> <<Event_Subnegotiation(st.opt, st.data, index)>>]
               [] byte = BYTE_IAC ->
                    [state |-> SBData(st.opt, Append(st.data, BYTE_IAC), FALSE),
                     ev |-> <<>>]
               [] OTHER ->
                    [state |-> NormalData(index + 1),
                     ev |-> <<Event_Error(byte, index)>>]
        ELSE IF byte = BYTE_IAC
             THEN [state |-> SBData(st.opt, st.data, TRUE), ev |-> <<>>]
             ELSE [state |-> SBData(st.opt, Append(st.data, byte), FALSE), ev |-> <<>>]

\* the SBData arm of parse_byte
parse_byte_SBData(st, buffer, index) ==
    LET byte == buffer[index + 1]
    IN  IF st.iac
        THEN CASE byte = BYTE_SE ->
                    [state |-> NormalData(index + 1),
                     ev |-> <<Event_Subnegotiation(st.opt, st.data, index)>>]
               [] byte = BYTE_IAC ->
                    [state |-> SBData(st.opt, Append(st.data, BYTE_IAC), FALSE),
                     ev |-> <<>>]
               [] OTHER ->
                    [state |-> SBData(st.opt, st.data, FALSE),
                     ev |-> <<Event_Error(byte, index)>>]
        ELSE IF byte = BYTE_IAC
             THEN [state |-> SBData(st.opt, st.data, TRUE), ev |-> <<>>]
             ELSE [state |-> SBData(st.opt, Append(st.data, byte), FALSE), ev |-> <<>>]

\* Parser::parse_byte: the new state and the event returned, if any
parse_byte(st, buffer, index) ==
    CASE st.tag = "NormalData"  -> parse_byte_NormalData(st, buffer, index)
      [] st.tag = "IAC"         -> parse_byte_IAC(st, buffer, index)
      [] st.tag = "Negotiation" -> parse_byte_Negotiation(st, buffer, index)
      [] st.tag = "SB"          -> parse_byte_SB(st, buffer, index)
      [] st.tag = "SBData"      -> parse_byte_SBData(st, buffer, index)

\* (index..buffer.len()).filter_map(|i| self.parse_byte(buffer, i)).collect()
RECURSIVE parse_bytes(_, _, _)
parse_bytes(st, buffer, index) ==
    IF index >= Len(buffer) THEN [state |-> st, events |-> <<>>]
    ELSE LET r == parse_byte(st, buffer, index)
             rest == parse_bytes(r.state, buffer, index + 1)
         IN  [state |-> rest.state, events |-> r.ev \o rest.events]

\* the events pushed after the loop of Parser::parse
parse_trailing(st, buffer) ==
    IF st.tag = "NormalData" /\ st.data_start < Len(buffer)
    THEN <<Event_Data(Slice(buffer, st.data_start, Len(buffer)), Len(buffer) - 1)>>
    ELSE <<>>

\* mutant: the trailing Data is put in front of the events of the loop
parse_collect_trailing_first(loop_events, trailing) == trailing \o loop_events

\* how Parser::parse orders the events of the loop and the trailing Data
parse_collect(loop_events, trailing) == loop_events \o trailing

\* mutant: the state is not held across calls
parse_stateless(st, buffer) ==
    LET r == parse_bytes(st, buffer, 0)
    IN  [asserted |-> (st.tag = "NormalData" => st.data_start = 0),
         state |-> NormalData(0),
         events |-> parse_collect(r.events, parse_trailing(r.state, buffer))]

\* mutant: the payload accumulated in a call is lost when the call returns
\* inside a sub-negotiation
parse_forgets_payload(st, buffer) ==
    LET r == parse_bytes(st, buffer, 0)
    IN  [asserted |-> (st.tag = "NormalData" => st.data_start = 0),
         state |-> IF r.state.tag = "NormalData" THEN NormalData(0)
                   ELSE IF r.state.tag = "SBData"
                        THEN SBData(r.state.opt, <<>>, r.state.iac)
                        ELSE r.state,
         events |-> parse_collect(r.events, parse_trailing(r.state, buffer))]

\* mutant: the state is stored as the loop left it, without the reset
parse_keeps_index(st, buffer) ==
    LET r == parse_bytes(st, buffer, 0)
    IN  [asserted |-> (st.tag = "NormalData" => st.data_start = 0),
         state |-> r.state,
         events |-> parse_collect(r.events, parse_trailing(r.state, buffer))]

\* Parser::parse: asserted is the entry assertion, state the state stored on
\* return, events the events returned
parse(st, buffer) ==
    LET r == parse_bytes(st, buffer, 0)
    IN  [asserted |-> (st.tag = "NormalData" => st.data_start = 0),
         state |-> IF r.state.tag = "NormalData" THEN NormalData(0) ELSE r.state,
         events |-> parse_collect(r.events, parse_trailing(r.state, buffer))]

(***************************************************************************)
(* format.rs                                                               *)
(***************************************************************************)
\* mutant: the next slice starts after the IAC instead of at it
data_restart_after(i) == i + 1

\* where the next slice starts after the slice ending in the IAC at index i
data_restart(i) == i

\* the loop of format::data: the slices pushed and the start of the open one
RECURSIVE data_loop(_, _, _, _)
data_loop(buffer, i, start, slices) ==
    IF i >= Len(buffer) THEN [start |-> start, slices |-> slices]
    ELSE IF buffer[i + 1] = BYTE_IAC
         THEN data_loop(buffer, i + 1, data_restart(i),
                        Append(slices, Slice(buffer, start, i + 1)))
         ELSE data_loop(buffer, i + 1, start, slices)

\* format::data: the slices of FormattedData
data(buffer) ==
    LET r == data_loop(buffer, 0, 0, <<>>)
    IN  IF r.start < Len(buffer)
        THEN Append(r.slices, Slice(buffer, r.start, Len(buffer)))
        ELSE r.slices

\* FormattedData::append_to
RECURSIVE append_to(_, _)
append_to(slices, buffer) ==
    IF slices = <<>> THEN buffer
    ELSE append_to(Tail(slices), buffer \o Head(slices))

\* FormattedData::to_owned
to_owned(slices) == append_to(slices, <<>>)

\* format::negotiation
negotiation(action, opt) ==
    <<BYTE_IAC, NegotiationAction_to_byte(action), TelnetOption_as_byte(opt)>>

\* format::sub_negotiation
sub_negotiation(opt, parameters) ==
    append_to(data(parameters), <<BYTE_IAC, BYTE_SB, TelnetOption_as_byte(opt)>>)
        \o <<BYTE_IAC, BYTE_SE>>

(***************************************************************************)
(* lib.rs: Telnet::process and its buffers. process_buffer is modelled by  *)
(* its first process_buffered_size bytes, the only ones ever read; cap is  *)
(* the length of buffer and of process_buffer.                             *)
(***************************************************************************)
\* ProcessState: the local state of one process call
ProcessState(tag, opt, start) == [tag |-> tag, opt |-> opt, start |-> start]

\* Telnet::append_data_to_proc_buffer: the new process buffer, or a panic on
\* a range that does not fit (data_end < data_start underflows)
append_data_to_proc_buffer(pb, buffer, data_start, data_end, cap) ==
    IF data_end < data_start \/ Len(pb) + (data_end - data_start) > cap
    THEN [pb |-> pb, panicked |-> TRUE]
    ELSE [pb |-> pb \o Slice(buffer, data_start, data_end), panicked |-> FALSE]

\* Telnet::copy_buffered_data: the boxed data returned and the process buffer
copy_buffered_data(pb, buffer, data_start, data_end, cap) ==
    IF Len(pb) > 0
    THEN LET a == append_data_to_proc_buffer(pb, buffer, data_start, data_end, cap)
         IN  IF a.panicked THEN [pb |-> pb, data |-> <<>>, panicked |-> TRUE]
             ELSE [pb |-> <<>>, data |-> a.pb, panicked |-> FALSE]
    ELSE IF data_end < data_start
         THEN [pb |-> pb, data |-> <<>>, panicked |-> TRUE]
         ELSE [pb |-> pb, data |-> Slice(buffer, data_start, data_end),
               panicked |-> FALSE]

\* self.process_buffer[self.process_buffered_size] = BYTE_IAC;
\* self.process_buffered_size += 1
push_escaped_iac(a, cap) ==
    IF a.panicked \/ Len(a.pb) >= cap
    THEN [pb |-> a.pb, panicked |-> TRUE]
    ELSE [pb |-> Append(a.pb, BYTE_IAC), panicked |-> FALSE]

\* the NormalData arm of process; m holds the locals state and data_start,
\* the process buffer pb, the events pushed in queue, and panicked
process_NormalData(m, buffer, current, cap) ==
    LET byte == buffer[current + 1]
    IN  IF byte = BYTE_IAC
        THEN IF current > m.data_start
             THEN LET c == copy_buffered_data(m.pb, buffer, m.data_start, current, cap)
                  IN  IF c.panicked THEN [m EXCEPT !.panicked = TRUE]
                      ELSE [m EXCEPT !.state = ProcessState("IAC", NoOpt, 0),
                                     !.pb = c.pb,
                                     !.queue = Append(@, Event_Data(c.data, current - 1)),
                                     !.data_start = current]
             ELSE [m EXCEPT !.state = ProcessState("IAC", NoOpt, 0)]
        ELSE IF current = Len(buffer) - 1
             THEN LET c == copy_buffered_data(m.pb, buffer, m.data_start, Len(buffer), cap)
                  IN  IF c.panicked THEN [m EXCEPT !.panicked = TRUE]
                      ELSE [m EXCEPT !.pb = c.pb,
                                     !.queue = Append(@, Event_Data(c.data, current))]
             ELSE m

\* the IAC arm of process
process_IAC(m, buffer, current, cap) ==
    LET byte == buffer[current + 1]
    IN  CASE byte = BYTE_WILL -> [m EXCEPT !.state = ProcessState("Will", NoOpt, 0)]
          [] byte = BYTE_WONT -> [m EXCEPT !.state = ProcessState("Wont", NoOpt, 0)]
          [] byte = BYTE_DO   -> [m EXCEPT !.state = ProcessState("Do", NoOpt, 0)]
          [] byte = BYTE_DONT -> [m EXCEPT !.state = ProcessState("Dont", NoOpt, 0)]
          [] byte = BYTE_SB   -> [m EXCEPT !.state = ProcessState("SB", NoOpt, 0)]
          [] byte = BYTE_IAC ->
                LET a == push_escaped_iac(
                            append_data_to_proc_buffer(m.pb, buffer, m.data_start,
                                                       current - 1, cap), cap)
                IN  IF a.panicked THEN [m EXCEPT !.panicked = TRUE]
                    ELSE [m EXCEPT !.pb = a.pb,
                                   !.state = ProcessState("NormalData", NoOpt, 0),
                                   !.data_start = current + 1]
          [] OTHER ->
                [m EXCEPT !.state = ProcessState("NormalData", NoOpt, 0),
                          !.data_start = current + 1,
                          !.queue = Append(@, Event_UnknownIAC(byte, current))]

\* the Will | Wont | Do | Dont arm of process
process_Negotiation(m, buffer, current, cap) ==
    LET byte == buffer[current + 1]
    IN  [m EXCEPT !.queue = Append(@, Event_Negotiation(m.state.tag,
                                        TelnetOption_parse(byte), current)),
                  !.state = ProcessState("NormalData", NoOpt, 0),
                  !.data_start = current + 1]

\* the SB arm of process
process_SB(m, buffer, current, cap) ==
    LET byte == buffer[current + 1]
    IN  [m EXCEPT !.state = ProcessState("SBData", TelnetOption_parse(byte), current + 1)]

\* the SBData arm of process
process_SBData(m, buffer, current, cap) ==
    LET byte == buffer[current + 1]
    IN  IF byte = BYTE_IAC
        THEN [m EXCEPT !.state = ProcessState("SBDataIAC", m.state.opt, m.state.start)]
        ELSE m

\* the SBDataIAC arm of process
process_SBDataIAC(m, buffer, current, cap) ==
    LET byte == buffer[current + 1]
        opt == m.state.opt
        sb_data_start == m.state.start
    IN  CASE byte = BYTE_SE ->
                LET c == copy_buffered_data(m.pb, buffer, sb_data_start, current - 1, cap)
                IN  IF c.panicked THEN [m EXCEPT !.panicked = TRUE]
                    ELSE [m EXCEPT !.state = ProcessState("NormalData", NoOpt, 0),
                                   !.data_start = current + 1,
                                   !.pb = c.pb,
                                   !.queue = Append(@, Event_Subnegotiation(opt, c.data,
                                                                            current))]
          [] byte = BYTE_IAC ->
                LET a == push_escaped_iac(
                            append_data_to_proc_buffer(m.pb, buffer, sb_data_start,
                                                       current - 1, cap), cap)
                IN  IF a.panicked THEN [m EXCEPT !.panicked = TRUE]
                    ELSE [m EXCEPT !.pb = a.pb,
                                   !.state = ProcessState("SBData", opt, current + 1)]
          [] OTHER ->
                LET a == append_data_to_proc_buffer(m.pb, buffer, sb_data_start,
                                                    current - 1, cap)
                    q == Append(m.queue, Event_Error(byte, current))
                IN  IF a.panicked THEN [m EXCEPT !.queue = q, !.panicked = TRUE]
                    ELSE [m EXCEPT !.queue = q, !.pb = a.pb,
                                   !.state = ProcessState("SBData", opt, current + 1)]

\* one iteration of the while loop of process
process_byte(m, buffer, current, cap) ==
    CASE m.state.tag = "NormalData" -> process_NormalData(m, buffer, current, cap)
      [] m.state.tag = "IAC"        -> process_IAC(m, buffer, current, cap)
      [] m.state.tag \in {"Will", "Wont", "Do", "Dont"} ->
                                       process_Negotiation(m, buffer, current, cap)
      [] m.state.tag = "SB"         -> process_SB(m, buffer, current, cap)
      [] m.state.tag = "SBData"     -> process_SBData(m, buffer, current, cap)
      [] m.state.tag = "SBDataIAC"  -> process_SBDataIAC(m, buffer, current, cap)

\* while current < self.buffered_size { ...; current += 1 }
RECURSIVE process_loop(_, _, _, _)
process_loop(m, buffer, current, cap) ==
    IF current >= Len(buffer) \/ m.panicked THEN m
    ELSE process_loop(process_byte(m, buffer, current, cap), buffer, current + 1, cap)

\* Telnet::process on the buffered_size bytes read into buffer: the process
\* buffer left, the events pushed, and whether it panicked
process(pb, buffer, cap) ==
    process_loop([state |-> ProcessState("NormalData", NoOpt, 0), data_start |-> 0,
                  pb |-> pb, queue |-> <<>>, panicked |-> FALSE],
                 buffer, 0, cap)

\* Telnet::from_stream: the length of buffer and process_buffer
from_stream(buf_size) == IF buf_size = 0 THEN 1 ELSE buf_size

(***************************************************************************)
(* lib.rs: Telnet::read, read_timeout and read_nonblocking. A call works   *)
(* on self = [event_queue, buffer, process_buffer, cap], buffer being      *)
(* Telnet.buffer[0..buffered_size]; io is what the stream answers to the   *)
(* calls made on it, base the number of bytes the transport has returned   *)
(* before (the offset ghost of the events).                                *)
(***************************************************************************)
\* the kinds of std::io::Error the stream returns
ErrorKind == {"WouldBlock", "TimedOut", "ConnectionReset"}

\* Event::TimedOut, Event::NoData and Event::Error(InternalQueueErr)
Event_TimedOut ==
    [kind |-> "TimedOut", action |-> "-", opt |-> NoOpt, data |-> <<>>, byte |-> 0, last |-> 0]
Event_NoData ==
    [kind |-> "NoData", action |-> "-", opt |-> NoOpt, data |-> <<>>, byte |-> 0, last |-> 0]
Event_InternalQueueErr ==
    [kind |-> "InternalQueueErr", action |-> "-", opt |-> NoOpt, data |-> <<>>, byte |-> 0, last |-> 0]
NoEvent ==
    [kind |-> "none", action |-> "-", opt |-> NoOpt, data |-> <<>>, byte |-> 0, last |-> 0]

\* io::Result<Event>; Looping stands for no return yet: the loop of read
\* goes round again
Ok(event) == [ok |-> TRUE, event |-> event, err |-> "-"]
Err(e) == [ok |-> FALSE, event |-> NoEvent, err |-> e]
Looping == [ok |-> FALSE, event |-> NoEvent, err |-> "looping"]

\* mutant: the newest event is taken
take_event_newest(queue) ==
    IF queue = <<>> THEN [event |-> <<>>, queue |-> queue]
    ELSE [event |-> <<queue[Len(queue)]>>, queue |-> SubSeq(queue, 1, Len(queue) - 1)]

\* TelnetEventQueue::take_event: pop_front, None as the empty tuple
take_event(queue) ==
    IF queue = <<>> THEN [event |-> <<>>, queue |-> queue]
    ELSE [event |-> <<Head(queue)>>, queue |-> Tail(queue)]

\* what a read call did: the fields it leaves, its return value, the
\* stream-setting calls it made, whether it called the transport's read, the
\* events process pushed, whether an event was taken from the queue, and
\* whether process panicked
Outcome(self, ret, calls, transport, pushed, taken, panic) ==
    [self |-> self, ret |-> ret, calls |-> calls, transport |-> transport,
     pushed |-> pushed, taken |-> taken, panicked |-> panic]

\* self.stream.set_nonblocking(nonblocking)?; self.stream.set_read_timeout(dur)?
set_stream_settings(io, nonblocking, dur) ==
    LET first == [call |-> "set_nonblocking", arg |-> nonblocking]
        second == [call |-> "set_read_timeout", arg |-> dur]
    IN  IF io.set_nonblocking # "Ok"
        THEN [calls |-> <<first>>, err |-> io.set_nonblocking]
        ELSE IF io.set_read_timeout # "Ok"
        THEN [calls |-> <<first, second>>, err |-> io.set_read_timeout]
        ELSE [calls |-> <<first, second>>, err |-> "Ok"]

\* Ok(self.event_queue.take_event().unwrap_or(Event::Error(InternalQueueErr)))
take_event_or_error(self, calls, transport, pushed) ==
    LET t == take_event(self.event_queue)
    IN  IF t.event = <<>>
        THEN Outcome(self, Ok(Event_InternalQueueErr), calls, transport, pushed,
                     FALSE, FALSE)
        ELSE Outcome([self EXCEPT !.event_queue = t.queue], Ok(t.event[1]), calls,
                     transport, pushed, TRUE, FALSE)

\* self.buffered_size = size; self.process()
read_and_process(self, bytes, base) ==
    LET p == process(self.process_buffer, bytes, self.cap)
        q == [k \in 1..Len(p.queue) |-> [p.queue[k] EXCEPT !.last = @ + base]]
    IN  [self |-> [self EXCEPT !.buffer = bytes,
                               !.process_buffer = p.pb,
                               !.event_queue = @ \o q],
         pushed |-> q, panicked |-> p.panicked]

\* Telnet::read, one pass: the loop test, one iteration of the loop and the
\* test again; Looping when the queue is empty after the iteration
read(self, io, base) ==
    IF self.event_queue = <<>>
    THEN LET s == set_stream_settings(io, "false", "None")
         IN  IF s.err # "Ok"
             THEN Outcome(self, Err(s.err), s.calls, FALSE, <<>>, FALSE, FALSE)
             ELSE IF ~io.read.ok
             THEN Outcome(self, Err(io.read.err), s.calls, TRUE, <<>>, FALSE, FALSE)
             ELSE LET p == read_and_process(self, io.read.bytes, base)
                  IN  IF p.panicked \/ p.self.event_queue = <<>>
                      THEN Outcome(p.self, Looping, s.calls, TRUE, p.pushed, FALSE,
                                   p.panicked)
                      ELSE take_event_or_error(p.self, s.calls, TRUE, p.pushed)
    ELSE take_event_or_error(self, <<>>, FALSE, <<>>)

\* the match arms of read_timeout on Err(e)
read_timeout_error(e) ==
    IF e = "WouldBlock" \/ e = "TimedOut" THEN Ok(Event_TimedOut) ELSE Err(e)

\* Telnet::read_timeout
read_timeout(self, io, base) ==
    IF self.event_queue = <<>>
    THEN LET s == set_stream_settings(io, "false", "Some(timeout)")
         IN  IF s.err # "Ok"
             THEN Outcome(self, Err(s.err), s.calls, FALSE, <<>>, FALSE, FALSE)
             ELSE IF ~io.read.ok
             THEN Outcome(self, read_timeout_error(io.read.err), s.calls, TRUE, <<>>,
                          FALSE, FALSE)
             ELSE LET p == read_and_process(self, io.read.bytes, base)
                  IN  IF p.panicked
                      THEN Outcome(p.self, Looping, s.calls, TRUE, p.pushed, FALSE, TRUE)
                      ELSE take_event_or_error(p.self, s.calls, TRUE, p.pushed)
    ELSE take_event_or_error(self, <<>>, FALSE, <<>>)

\* mutant: a timeout of the transport is taken for no data, as in read_timeout
read_nonblocking_error_timed_out(e) ==
    IF e = "WouldBlock" \/ e = "TimedOut" THEN Ok(Event_NoData) ELSE Err(e)

\* the match arms of read_nonblocking on Err(e)
read_nonblocking_error(e) ==
    IF e = "WouldBlock" THEN Ok(Event_NoData) ELSE Err(e)

\* Telnet::read_nonblocking
read_nonblocking(self, io, base) ==
    IF self.event_queue = <<>>
    THEN LET s == set_stream_settings(io, "true", "None")
         IN  IF s.err # "Ok"
             THEN Outcome(self, Err(s.err), s.calls, FALSE, <<>>, FALSE, FALSE)
             ELSE IF ~io.read.ok
             THEN Outcome(self, read_nonblocking_error(io.read.err), s.calls, TRUE,
                          <<>>, FALSE, FALSE)
             ELSE LET p == read_and_process(self, io.read.bytes, base)
                  IN  IF p.panicked
                      THEN Outcome(p.self, Looping, s.calls, TRUE, p.pushed, FALSE, TRUE)
                      ELSE take_event_or_error(p.self, s.calls, TRUE, p.pushed)
    ELSE take_event_or_error(self, <<>>, FALSE, <<>>)

(***************************************************************************)
(* lib.rs: Telnet::write, negotiate and subnegotiate. The stream written   *)
(* to is st = [out, calls, fail]: the bytes it has taken, the buffers of   *)
(* the write_all calls made on it, and fail = [at, cut, err]: the number   *)
(* of the write_all call that fails (0: none), how many bytes of its       *)
(* buffer the stream takes before failing, and the kind of its error.      *)
(***************************************************************************)
\* Result<usize> and Result<(), TelnetError>, () as 0; an error is a tuple,
\* an io::Error the tuple of its kind
Ok_usize(n) == [ok |-> TRUE, value |-> n, err |-> <<>>]
Err_of(e) == [ok |-> FALSE, value |-> 0, err |-> e]

\* SubnegotiationErr(SubnegotiationType::Start | Data | End) and NegotiationErr
SubnegotiationErr(type) == <<"SubnegotiationErr", type>>
NegotiationErr == <<"NegotiationErr">>

\* self.stream.write_all(buf)
write_all(st, buf) ==
    IF Len(st.calls) + 1 = st.fail.at
    THEN [st |-> [st EXCEPT !.calls = Append(@, buf),
                            !.out = @ \o SubSeq(buf, 1, IF st.fail.cut < Len(buf)
                                                        THEN st.fail.cut ELSE Len(buf))],
          ok |-> FALSE]
    ELSE [st |-> [st EXCEPT !.calls = Append(@, buf), !.out = @ \o buf], ok |-> TRUE]

\* mutant: the second IAC of an escape is not written
write_escaped_iac_skipped(st) == [st |-> st, ok |-> TRUE]

\* self.stream.write_all(&[BYTE_IAC])?
write_escaped_iac(st) == write_all(st, <<BYTE_IAC>>)

\* the for loop of Telnet::write and the write of the rest
RECURSIVE write_loop(_, _, _, _, _)
write_loop(st, bytes, i, start, write_size) ==
    IF i >= Len(bytes)
    THEN IF start < Len(bytes)
         THEN LET w == write_all(st, Slice(bytes, start, Len(bytes)))
              IN  IF w.ok
                  THEN [st |-> w.st, ret |-> Ok_usize(write_size + Len(bytes) - start)]
                  ELSE [st |-> w.st, ret |-> Err_of(<<st.fail.err>>)]
         ELSE [st |-> st, ret |-> Ok_usize(write_size)]
    ELSE IF bytes[i + 1] = BYTE_IAC
         THEN LET w == write_all(st, Slice(bytes, start, i + 1))
              IN  IF ~w.ok THEN [st |-> w.st, ret |-> Err_of(<<st.fail.err>>)]
                  ELSE LET e == write_escaped_iac(w.st)
                       IN  IF ~e.ok THEN [st |-> e.st, ret |-> Err_of(<<st.fail.err>>)]
                           ELSE write_loop(e.st, bytes, i + 1, i + 1,
                                           write_size + i + 1 - start)
         ELSE write_loop(st, bytes, i + 1, start, write_size)

\* Telnet::write(data)
write(st, bytes) == write_loop(st, bytes, 0, 0, 0)

\* Telnet::negotiate(action, opt)
negotiate(st, action, opt) ==
    LET buf == <<BYTE_IAC, NegotiationAction_to_byte(action), TelnetOption_as_byte(opt)>>
        w == write_all(st, buf)
    IN  IF w.ok THEN [st |-> w.st, ret |-> Ok_usize(0)]
        ELSE [st |-> w.st, ret |-> Err_of(NegotiationErr)]

\* mutant: a failure of the last write is reported as a failure of the data
subnegotiate_end_as_data(st) ==
    LET w == write_all(st, <<BYTE_IAC, BYTE_SE>>)
    IN  IF w.ok THEN [st |-> w.st, ret |-> Ok_usize(0)]
        ELSE [st |-> w.st, ret |-> Err_of(SubnegotiationErr("Data"))]

\* the last write of Telnet::subnegotiate
subnegotiate_end(st) ==
    LET w == write_all(st, <<BYTE_IAC, BYTE_SE>>)
    IN  IF w.ok THEN [st |-> w.st, ret |-> Ok_usize(0)]
        ELSE [st |-> w.st, ret |-> Err_of(SubnegotiationErr("End"))]

\* Telnet::subnegotiate(opt, data)
subnegotiate(st, opt, bytes) ==
    LET w1 == write_all(st, <<BYTE_IAC, BYTE_SB, TelnetOption_as_byte(opt)>>)
    IN  IF ~w1.ok THEN [st |-> w1.st, ret |-> Err_of(SubnegotiationErr("Start"))]
        ELSE LET w2 == write_all(w1.st, bytes)
             IN  IF ~w2.ok
                 THEN [st |-> w2.st, ret |-> Err_of(SubnegotiationErr("Data"))]
                 ELSE subnegotiate_end(w2.st)

(***************************************************************************)
(* zlibstream.rs: ZlibStream<T>. The underlying stream T is the sequence   *)
(* of the calls made on it; ZlibDecoder<T> is the stream it holds, its     *)
(* output written Inflate of what it reads.                                *)
(***************************************************************************)
\* a call on the underlying stream
StreamCall(call, buf, flag) == [call |-> call, buf |-> buf, flag |-> flag]

\* ZlibStreamSwitch::Plain(stream) and ::Encoded(ZlibDecoder::new(stream))
ZlibStreamSwitch_Plain(stream) == [tag |-> "Plain", stream |-> stream]
ZlibStreamSwitch_Encoded(stream) == [tag |-> "Encoded", stream |-> stream]

\* ZlibStream::from_stream
ZlibStream_from_stream(stream) == ZlibStreamSwitch_Plain(stream)

\* <ZlibStream as Read>::read, the underlying read returning bytes: the new
\* switch and the bytes read, inflated by the decoder in Encoded
ZlibStream_read(zs, bytes) ==
    IF zs.tag = "Plain"
    THEN [zs |-> [zs EXCEPT !.stream = Append(@, StreamCall("read", <<>>, "-"))],
          ret |-> [inflated |-> FALSE, bytes |-> bytes]]
    ELSE [zs |-> [zs EXCEPT !.stream = Append(@, StreamCall("read", <<>>, "-"))],
          ret |-> [inflated |-> TRUE, bytes |-> bytes]]

\* <ZlibStream as Write>::write
ZlibStream_write(zs, buf) ==
    IF zs.tag = "Plain"
    THEN [zs EXCEPT !.stream = Append(@, StreamCall("write", buf, "-"))]
    ELSE [zs EXCEPT !.stream = Append(@, StreamCall("write", buf, "-"))]

\* <ZlibStream as Write>::flush
ZlibStream_flush(zs) ==
    IF zs.tag = "Plain"
    THEN [zs EXCEPT !.stream = Append(@, StreamCall("flush", <<>>, "-"))]
    ELSE [zs EXCEPT !.stream = Append(@, StreamCall("flush", <<>>, "-"))]

\* <ZlibStream as Stream>::set_nonblocking
ZlibStream_set_nonblocking(zs, nonblocking) ==
    IF zs.tag = "Plain"
    THEN [zs EXCEPT !.stream = Append(@, StreamCall("set_nonblocking", <<>>, nonblocking))]
    ELSE [zs EXCEPT !.stream = Append(@, StreamCall("set_nonblocking", <<>>, nonblocking))]

\* <ZlibStream as Stream>::set_read_timeout
ZlibStream_set_read_timeout(zs, dur) ==
    IF zs.tag = "Plain"
    THEN [zs EXCEPT !.stream = Append(@, StreamCall("set_read_timeout", <<>>, dur))]
    ELSE [zs EXCEPT !.stream = Append(@, StreamCall("set_read_timeout", <<>>, dur))]

\* mutant: begin_zlib on a decoding stream switches the decoding off
begin_zlib_toggles(zs) ==
    IF zs.tag = "Plain" THEN ZlibStreamSwitch_Encoded(zs.stream)
    ELSE ZlibStreamSwitch_Plain(zs.stream)

\* <ZlibStream as ZCStream>::begin_zlib
begin_zlib(zs) ==
    IF zs.tag = "Plain" THEN ZlibStreamSwitch_Encoded(zs.stream) ELSE zs

\* <ZlibStream as ZCStream>::end_zlib
end_zlib(zs) ==
    IF zs.tag = "Encoded" THEN ZlibStreamSwitch_Plain(zs.stream) ELSE zs

(***************************************************************************)
(* negotiation.rs: the Q method of RFC 1143. A call works on                *)
(* m = [map, queue, sent]: NegotiationSM.map, the TelnetEventQueue it       *)
(* pushes to and the negotiations it has handed to the stream.             *)
(***************************************************************************)
State == {"No", "Yes", "WantNoEmpty", "WantNoOpposite", "WantYesEmpty", "WantYesOpposite"}

\* OptState of an option the map does not hold yet
OptState_default == [us |-> "No", him |-> "No"]

\* NegotiationSM::new
NegotiationSM_new == <<>>

\* the events of event.rs the state machine pushes
TelnetEvent_RemoteEnabled(opt) == [kind |-> "RemoteEnabled", opt |-> opt, msg |-> <<>>]
TelnetEvent_RemoteDisabled(opt) == [kind |-> "RemoteDisabled", opt |-> opt, msg |-> <<>>]
TelnetEvent_LocalShouldEnable(opt) == [kind |-> "LocalShouldEnable", opt |-> opt, msg |-> <<>>]
TelnetEvent_LocalShouldDisable(opt) == [kind |-> "LocalShouldDisable", opt |-> opt, msg |-> <<>>]
TelnetEvent_Error(msg) == [kind |-> "Error", opt |-> NoOpt, msg |-> msg]

\* NegotiationSM::get_state
get_state(map, is_us, opt) ==
    IF opt \in DOMAIN map
    THEN IF is_us THEN map[opt].us ELSE map[opt].him
    ELSE "No"

\* mutant: the new state is written to both sides of the option
set_state_both_sides(m, is_us, opt, new_state) ==
    [m EXCEPT !.map = [o \in (DOMAIN m.map) \cup {opt} |->
                          IF o = opt THEN [us |-> new_state, him |-> new_state]
                          ELSE m.map[o]]]

\* NegotiationSM::set_state
set_state(m, is_us, opt, new_state) ==
    LET opt_state == IF opt \in DOMAIN m.map THEN m.map[opt] ELSE OptState_default
        updated == IF is_us THEN [opt_state EXCEPT !.us = new_state]
                   ELSE [opt_state EXCEPT !.him = new_state]
    IN  [m EXCEPT !.map = [o \in (DOMAIN m.map) \cup {opt} |->
                              IF o = opt THEN updated ELSE m.map[o]]]

\* TelnetEventQueue::push_event
push_event(m, event) == [m EXCEPT !.queue = Append(m.queue, event)]

\* stream.send_negotiation(action, opt, queue): the negotiation goes out on
\* the stream
send_negotiation(m, action, opt) ==
    [m EXCEPT !.sent = Append(m.sent, [action |-> action, opt |-> opt])]

\* mutant: the answer awaited is acknowledged with a DO
receive_will_WantYesEmpty_acks(m, req_opt) ==
    push_event(send_negotiation(set_state(m, FALSE, req_opt, "Yes"), "Do", req_opt),
               TelnetEvent_RemoteEnabled(req_opt))

\* receive_will, the arm of State::WantYesEmpty
receive_will_WantYesEmpty(m, req_opt) ==
    push_event(set_state(m, FALSE, req_opt, "Yes"), TelnetEvent_RemoteEnabled(req_opt))

\* mutant: the queued disable is recorded and the DONT is not sent
receive_will_WantYesOpposite_unsent(m, req_opt) ==
    set_state(m, FALSE, req_opt, "WantNoEmpty")

\* receive_will, the arm of State::WantYesOpposite
receive_will_WantYesOpposite(m, req_opt) ==
    send_negotiation(set_state(m, FALSE, req_opt, "WantNoEmpty"), "Dont", req_opt)

\* NegotiationSM::receive_will
receive_will(m, req_opt, is_remote_allowed) ==
    LET st == get_state(m.map, FALSE, req_opt)
    IN  CASE st = "No" ->
                IF is_remote_allowed
                THEN push_event(send_negotiation(set_state(m, FALSE, req_opt, "Yes"),
                                                 "Do", req_opt),
                                TelnetEvent_RemoteEnabled(req_opt))
                ELSE send_negotiation(m, "Dont", req_opt)
          [] st = "Yes" -> m
          [] st = "WantNoEmpty" ->
                push_event(set_state(push_event(m, TelnetEvent_Error(<<"DONT answered by WILL">>)),
                                     FALSE, req_opt, "No"),
                           TelnetEvent_RemoteDisabled(req_opt))
          [] st = "WantNoOpposite" ->
                push_event(set_state(push_event(m, TelnetEvent_Error(<<"DONT answered by WILL">>)),
                                     FALSE, req_opt, "Yes"),
                           TelnetEvent_RemoteEnabled(req_opt))
          [] st = "WantYesEmpty" -> receive_will_WantYesEmpty(m, req_opt)
          [] st = "WantYesOpposite" -> receive_will_WantYesOpposite(m, req_opt)

\* mutant: the WONT of an enabled option is taken without the DONT
receive_wont_Yes_silent(m, req_opt) ==
    push_event(set_state(m, FALSE, req_opt, "No"), TelnetEvent_RemoteDisabled(req_opt))

\* mutant: the option is disabled without telling the application
receive_wont_Yes_unreported(m, req_opt) ==
    send_negotiation(set_state(m, FALSE, req_opt, "No"), "Dont", req_opt)

\* receive_wont, the arm of State::Yes
receive_wont_Yes(m, req_opt) ==
    push_event(send_negotiation(set_state(m, FALSE, req_opt, "No"), "Dont", req_opt),
               TelnetEvent_RemoteDisabled(req_opt))

\* NegotiationSM::receive_wont
receive_wont(m, req_opt) ==
    LET st == get_state(m.map, FALSE, req_opt)
    IN  CASE st = "No" -> m
          [] st = "Yes" -> receive_wont_Yes(m, req_opt)
          [] st = "WantNoEmpty" ->
                push_event(set_state(m, FALSE, req_opt, "No"),
                           TelnetEvent_RemoteDisabled(req_opt))
          [] st = "WantNoOpposite" ->
                send_negotiation(set_state(m, FALSE, req_opt, "WantYesEmpty"), "Do", req_opt)
          [] st \in {"WantYesEmpty", "WantYesOpposite"} ->
                push_event(set_state(m, FALSE, req_opt, "No"),
                           TelnetEvent_RemoteDisabled(req_opt))

\* mutant: the queued request is dropped with the answer
receive_do_WantNoOpposite_drops(m, req_opt) ==
    push_event(set_state(push_event(m, TelnetEvent_Error(<<"WONT answered by DO">>)),
                         TRUE, req_opt, "No"),
               TelnetEvent_LocalShouldDisable(req_opt))

\* receive_do, the arm of State::WantNoOpposite
receive_do_WantNoOpposite(m, req_opt) ==
    push_event(set_state(push_event(m, TelnetEvent_Error(<<"WONT answered by DO">>)),
                         TRUE, req_opt, "Yes"),
               TelnetEvent_LocalShouldEnable(req_opt))

\* NegotiationSM::receive_do
receive_do(m, req_opt, is_local_supported) ==
    LET st == get_state(m.map, TRUE, req_opt)
    IN  CASE st = "No" ->
                IF is_local_supported
                THEN push_event(send_negotiation(set_state(m, TRUE, req_opt, "Yes"),
                                                 "Will", req_opt),
                                TelnetEvent_LocalShouldEnable(req_opt))
                ELSE send_negotiation(m, "Wont", req_opt)
          [] st = "Yes" -> m
          [] st = "WantNoEmpty" ->
                push_event(set_state(push_event(m, TelnetEvent_Error(<<"WONT answered by DO">>)),
                                     TRUE, req_opt, "No"),
                           TelnetEvent_LocalShouldDisable(req_opt))
          [] st = "WantNoOpposite" -> receive_do_WantNoOpposite(m, req_opt)
          [] st = "WantYesEmpty" ->
                push_event(set_state(m, TRUE, req_opt, "Yes"),
                           TelnetEvent_LocalShouldEnable(req_opt))
          [] st = "WantYesOpposite" ->
                send_negotiation(set_state(m, TRUE, req_opt, "WantNoEmpty"), "Wont", req_opt)

\* mutant: a DONT that answers our WILL is taken for an agreement
receive_dont_refusal_enables(m, req_opt) ==
    LET st == get_state(m.map, TRUE, req_opt)
    IN  CASE st = "No" -> m
          [] st = "Yes" ->
                push_event(send_negotiation(set_state(m, TRUE, req_opt, "No"),
                                            "Wont", req_opt),
                           TelnetEvent_LocalShouldDisable(req_opt))
          [] st = "WantNoEmpty" ->
                push_event(set_state(m, TRUE, req_opt, "No"),
                           TelnetEvent_LocalShouldDisable(req_opt))
          [] st = "WantNoOpposite" ->
                send_negotiation(set_state(m, TRUE, req_opt, "WantYesEmpty"), "Will", req_opt)
          [] st \in {"WantYesEmpty", "WantYesOpposite"} ->
                push_event(set_state(m, TRUE, req_opt, "Yes"),
                           TelnetEvent_LocalShouldEnable(req_opt))

\* NegotiationSM::receive_dont
receive_dont(m, req_opt) ==
    LET st == get_state(m.map, TRUE, req_opt)
    IN  CASE st = "No" -> m
          [] st = "Yes" ->
                push_event(send_negotiation(set_state(m, TRUE, req_opt, "No"),
                                            "Wont", req_opt),
                           TelnetEvent_LocalShouldDisable(req_opt))
          [] st = "WantNoEmpty" ->
                push_event(set_state(m, TRUE, req_opt, "No"),
                           TelnetEvent_LocalShouldDisable(req_opt))
          [] st = "WantNoOpposite" ->
                send_negotiation(set_state(m, TRUE, req_opt, "WantYesEmpty"), "Will", req_opt)
          [] st \in {"WantYesEmpty", "WantYesOpposite"} ->
                push_event(set_state(m, TRUE, req_opt, "No"),
                           TelnetEvent_LocalShouldDisable(req_opt))

\* mutant: the enable request is sent while the WONT is still unanswered
inform_enabled_WantNoEmpty_sends(m, req_opt) ==
    send_negotiation(set_state(m, TRUE, req_opt, "WantNoOpposite"), "Will", req_opt)

\* inform_enabled, the arm of State::WantNoEmpty
inform_enabled_WantNoEmpty(m, req_opt) == set_state(m, TRUE, req_opt, "WantNoOpposite")

\* NegotiationSM::inform_enabled
inform_enabled(m, req_opt) ==
    LET st == get_state(m.map, TRUE, req_opt)
    IN  CASE st = "No" ->
                send_negotiation(set_state(m, TRUE, req_opt, "WantYesEmpty"), "Will", req_opt)
          [] st = "Yes" -> push_event(m, TelnetEvent_Error(<<"Option: ", req_opt, " is already enabled">>))
          [] st = "WantNoEmpty" -> inform_enabled_WantNoEmpty(m, req_opt)
          [] st = "WantNoOpposite" ->
                push_event(m, TelnetEvent_Error(<<"Already queued an enable request">>))
          [] st = "WantYesEmpty" ->
                push_event(m, TelnetEvent_Error(<<"Already negotiating for enable">>))
          [] st = "WantYesOpposite" -> set_state(m, TRUE, req_opt, "WantYesEmpty")

\* NegotiationSM::inform_disable
inform_disable(m, req_opt) ==
    LET st == get_state(m.map, TRUE, req_opt)
    IN  CASE st = "No" -> push_event(m, TelnetEvent_Error(<<"Option: ", req_opt, " is already disabled">>))
          [] st = "Yes" ->
                send_negotiation(set_state(m, TRUE, req_opt, "WantNoEmpty"), "Wont", req_opt)
          [] st = "WantNoEmpty" ->
                push_event(m, TelnetEvent_Error(<<"Already negotiating for disable">>))
          [] st = "WantNoOpposite" -> set_state(m, TRUE, req_opt, "WantNoEmpty")
          [] st = "WantYesEmpty" -> set_state(m, TRUE, req_opt, "WantYesOpposite")
          [] st = "WantYesOpposite" ->
                push_event(m, TelnetEvent_Error(<<"Already queued an disable request">>))

\* mutant: the enable request is sent at once instead of queued
ask_to_enable_WantNoEmpty_sends(m, req_opt) ==
    send_negotiation(set_state(m, FALSE, req_opt, "WantNoOpposite"), "Do", req_opt)

\* ask_to_enable, the arm of State::WantNoEmpty
ask_to_enable_WantNoEmpty(m, req_opt) == set_state(m, FALSE, req_opt, "WantNoOpposite")

\* NegotiationSM::ask_to_enable
ask_to_enable(m, req_opt) ==
    LET st == get_state(m.map, FALSE, req_opt)
    IN  CASE st = "No" ->
                send_negotiation(set_state(m, FALSE, req_opt, "WantYesEmpty"), "Do", req_opt)
          [] st = "Yes" -> push_event(m, TelnetEvent_Error(<<"Option: ", req_opt, " is already enabled">>))
          [] st = "WantNoEmpty" -> ask_to_enable_WantNoEmpty(m, req_opt)
          [] st = "WantNoOpposite" ->
                push_event(m, TelnetEvent_Error(<<"Already queued an enable request">>))
          [] st = "WantYesEmpty" ->
                push_event(m, TelnetEvent_Error(<<"Already negotiating for enable">>))
          [] st = "WantYesOpposite" -> set_state(m, FALSE, req_opt, "WantYesEmpty")

\* mutant: the queued disable request overwrites the pending enable
ask_to_disable_WantYesEmpty_resets(m, req_opt) ==
    set_state(m, FALSE, req_opt, "WantNoEmpty")

\* ask_to_disable, the arm of State::WantYesEmpty
ask_to_disable_WantYesEmpty(m, req_opt) == set_state(m, FALSE, req_opt, "WantYesOpposite")

\* NegotiationSM::ask_to_disable
ask_to_disable(m, req_opt) ==
    LET st == get_state(m.map, FALSE, req_opt)
    IN  CASE st = "No" -> push_event(m, TelnetEvent_Error(<<"Option: ", req_opt, " is already disabled">>))
          [] st = "Yes" ->
                send_negotiation(set_state(m, FALSE, req_opt, "WantNoEmpty"), "Dont", req_opt)
          [] st = "WantNoEmpty" ->
                push_event(m, TelnetEvent_Error(<<"Already negotiating for disable">>))
          [] st = "WantNoOpposite" -> set_state(m, FALSE, req_opt, "WantNoEmpty")
          [] st = "WantYesEmpty" -> ask_to_disable_WantYesEmpty(m, req_opt)
          [] st = "WantYesOpposite" ->
                push_event(m, TelnetEvent_Error(<<"Already queued an disable request">>))

(***************************************************************************)
(* connection.rs: TelnetConnection::process. A call works on               *)
(* m = [state, data_start, pb, panicked, map, queue, sent]: the locals of  *)
(* process, the first process_buffered_size bytes of process_buffer, the   *)
(* map of negotiation_sm, the event queue and the negotiations handed to   *)
(* the stream. cap is the length of buffer and of process_buffer.          *)
(***************************************************************************)
\* the events of event.rs that process pushes
TelnetEvent_DataReceived(bytes) == [kind |-> "DataReceived", opt |-> NoOpt, msg |-> bytes]
TelnetEvent_UnknownIAC(byte) == [kind |-> "UnknownIAC", opt |-> NoOpt, msg |-> <<byte>>]
TelnetEvent_SBReceived(opt, bytes) == [kind |-> "SBReceived", opt |-> opt, msg |-> bytes]
TelnetEvent_NegotiationReceived(action, opt) ==
    [kind |-> "NegotiationReceived", opt |-> opt, msg |-> <<action>>]

\* the policy of an option the configuration does not hold
OptionConfig_default == [local_allowed |-> FALSE, remote_allowed |-> FALSE]

\* TelnetOptionConfigs::is_him_allowed: whether the remote side is permitted
\* to enable opt
is_him_allowed(option_configs, opt) ==
    IF opt \in DOMAIN option_configs THEN option_configs[opt].remote_allowed
    ELSE OptionConfig_default.remote_allowed

\* TelnetConnection::new: the length of buffer and process_buffer
TelnetConnection_new(buf_size) == IF buf_size = 0 THEN 1 ELSE buf_size

\* TelnetConnection::append_data_to_proc_buffer: the new process buffer, or
\* a panic on a range that does not fit (data_end < data_start underflows)
TelnetConnection_append_data_to_proc_buffer(pb, buffer, data_start, data_end, cap) ==
    IF data_end < data_start \/ Len(pb) + (data_end - data_start) > cap
    THEN [pb |-> pb, panicked |-> TRUE]
    ELSE [pb |-> pb \o Slice(buffer, data_start, data_end), panicked |-> FALSE]

\* TelnetConnection::copy_buffered_data: the boxed data and the process buffer
TelnetConnection_copy_buffered_data(pb, buffer, data_start, data_end, cap) ==
    IF Len(pb) > 0
    THEN LET a == TelnetConnection_append_data_to_proc_buffer(pb, buffer, data_start,
                                                              data_end, cap)
         IN  IF a.panicked THEN [pb |-> pb, data |-> <<>>, panicked |-> TRUE]
             ELSE [pb |-> <<>>, data |-> a.pb, panicked |-> FALSE]
    ELSE IF data_end < data_start
         THEN [pb |-> pb, data |-> <<>>, panicked |-> TRUE]
         ELSE [pb |-> pb, data |-> Slice(buffer, data_start, data_end),
               panicked |-> FALSE]

\* self.process_buffer[self.process_buffered_size] = BYTE_IAC;
\* self.process_buffered_size += 1
TelnetConnection_push_escaped_iac(a, cap) ==
    IF a.panicked \/ Len(a.pb) >= cap
    THEN [pb |-> a.pb, panicked |-> TRUE]
    ELSE [pb |-> Append(a.pb, BYTE_IAC), panicked |-> FALSE]

\* the NormalData arm
TelnetConnection_process_NormalData(m, buffer, current, cap) ==
    LET byte == buffer[current + 1]
    IN  IF byte = BYTE_IAC
        THEN IF current > m.data_start
             THEN LET c == TelnetConnection_copy_buffered_data(m.pb, buffer, m.data_start,
                                                               current, cap)
                  IN  IF c.panicked THEN [m EXCEPT !.panicked = TRUE]
                      ELSE push_event([m EXCEPT !.state = ProcessState("IAC", NoOpt, 0),
                                                !.pb = c.pb],
                                      TelnetEvent_DataReceived(c.data))
             ELSE [m EXCEPT !.state = ProcessState("IAC", NoOpt, 0)]
        ELSE IF current = Len(buffer) - 1
             THEN LET c == TelnetConnection_copy_buffered_data(m.pb, buffer, m.data_start,
                                                               Len(buffer), cap)
                  IN  IF c.panicked THEN [m EXCEPT !.panicked = TRUE]
                      ELSE push_event([m EXCEPT !.pb = c.pb],
                                      TelnetEvent_DataReceived(c.data))
             ELSE m

\* the IAC arm
TelnetConnection_process_IAC(m, buffer, current, cap) ==
    LET byte == buffer[current + 1]
    IN  CASE byte = BYTE_WILL -> [m EXCEPT !.state = ProcessState("Will", NoOpt, 0)]
          [] byte = BYTE_WONT -> [m EXCEPT !.state = ProcessState("Wont", NoOpt, 0)]
          [] byte = BYTE_DO   -> [m EXCEPT !.state = ProcessState("Do", NoOpt, 0)]
          [] byte = BYTE_DONT -> [m EXCEPT !.state = ProcessState("Dont", NoOpt, 0)]
          [] byte = BYTE_SB   -> [m EXCEPT !.state = ProcessState("SB", NoOpt, 0)]
          [] byte = BYTE_IAC ->
                LET a == TelnetConnection_push_escaped_iac(
                            TelnetConnection_append_data_to_proc_buffer(
                                m.pb, buffer, m.data_start, current - 1, cap), cap)
                IN  IF a.panicked THEN [m EXCEPT !.panicked = TRUE]
                    ELSE [m EXCEPT !.pb = a.pb,
                                   !.state = ProcessState("NormalData", NoOpt, 0),
                                   !.data_start = current + 1]
          [] OTHER ->
                push_event([m EXCEPT !.state = ProcessState("NormalData", NoOpt, 0),
                                     !.data_start = current + 1],
                           TelnetEvent_UnknownIAC(byte))

\* the Will | Wont | Do | Dont arm: the event, then the state machine
TelnetConnection_process_Negotiation(m, buffer, current, option_configs) ==
    LET byte == buffer[current + 1]
        opt == TelnetOption_parse(byte)
        is_allowed == is_him_allowed(option_configs, opt)
        received == push_event(m, TelnetEvent_NegotiationReceived(m.state.tag, opt))
        handled ==
            CASE m.state.tag = "Will" -> receive_will(received, opt, is_allowed)
              [] m.state.tag = "Wont" -> receive_wont(received, opt)
              [] m.state.tag = "Do"   -> receive_do(received, opt, is_allowed)
              [] m.state.tag = "Dont" -> receive_dont(received, opt)
    IN  [handled EXCEPT !.state = ProcessState("NormalData", NoOpt, 0),
                        !.data_start = current + 1]

\* the SB arm
TelnetConnection_process_SB(m, buffer, current) ==
    LET byte == buffer[current + 1]
    IN  [m EXCEPT !.state = ProcessState("SBData", TelnetOption_parse(byte), current + 1)]

\* the SBData arm
TelnetConnection_process_SBData(m, buffer, current) ==
    LET byte == buffer[current + 1]
    IN  IF byte = BYTE_IAC
        THEN [m EXCEPT !.state = ProcessState("SBDataIAC", m.state.opt, m.state.start)]
        ELSE m

\* the SBDataIAC arm
TelnetConnection_process_SBDataIAC(m, buffer, current, cap) ==
    LET byte == buffer[current + 1]
        opt == m.state.opt
        sb_data_start == m.state.start
    IN  CASE byte = BYTE_SE ->
                LET c == TelnetConnection_copy_buffered_data(m.pb, buffer, sb_data_start,
                                                             current - 1, cap)
                IN  IF c.panicked THEN [m EXCEPT !.panicked = TRUE]
                    ELSE push_event([m EXCEPT !.state = ProcessState("NormalData", NoOpt, 0),
                                              !.data_start = current + 1,
                                              !.pb = c.pb],
                                    TelnetEvent_SBReceived(opt, c.data))
          [] byte = BYTE_IAC ->
                LET a == TelnetConnection_push_escaped_iac(
                            TelnetConnection_append_data_to_proc_buffer(
                                m.pb, buffer, sb_data_start, current - 1, cap), cap)
                IN  IF a.panicked THEN [m EXCEPT !.panicked = TRUE]
                    ELSE [m EXCEPT !.pb = a.pb,
                                   !.state = ProcessState("SBData", opt, current + 1)]
          [] OTHER ->
                LET q == push_event(m, TelnetEvent_Error(
                                           <<"Unexpected byte after IAC inside SB", byte>>))
                    a == TelnetConnection_append_data_to_proc_buffer(
                             m.pb, buffer, sb_data_start, current - 1, cap)
                IN  IF a.panicked THEN [q EXCEPT !.panicked = TRUE]
                    ELSE [q EXCEPT !.pb = a.pb,
                                   !.state = ProcessState("SBData", opt, current + 1)]

\* one iteration of the while loop
TelnetConnection_process_byte(m, buffer, current, cap, option_configs) ==
    CASE m.state.tag = "NormalData" ->
                TelnetConnection_process_NormalData(m, buffer, current, cap)
      [] m.state.tag = "IAC" -> TelnetConnection_process_IAC(m, buffer, current, cap)
      [] m.state.tag \in {"Will", "Wont", "Do", "Dont"} ->
                TelnetConnection_process_Negotiation(m, buffer, current, option_configs)
      [] m.state.tag = "SB" -> TelnetConnection_process_SB(m, buffer, current)
      [] m.state.tag = "SBData" -> TelnetConnection_process_SBData(m, buffer, current)
      [] m.state.tag = "SBDataIAC" ->
                TelnetConnection_process_SBDataIAC(m, buffer, current, cap)

\* while current < self.buffered_size { ...; current += 1 }
RECURSIVE TelnetConnection_process_loop(_, _, _, _, _)
TelnetConnection_process_loop(m, buffer, current, cap, option_configs) ==
    IF current >= Len(buffer) \/ m.panicked THEN m
    ELSE TelnetConnection_process_loop(
             TelnetConnection_process_byte(m, buffer, current, cap, option_configs),
             buffer, current + 1, cap, option_configs)

\* TelnetConnection::process on the buffered_size bytes read into buffer, the
\* connection holding process buffer pb and negotiation map map
TelnetConnection_process(pb, map, buffer, cap, option_configs) ==
    TelnetConnection_process_loop(
        [state |-> ProcessState("NormalData", NoOpt, 0), data_start |-> 0,
         pb |-> pb, panicked |-> FALSE, map |-> map, queue |-> <<>>, sent |-> <<>>],
        buffer, 0, cap, option_configs)

(***************************************************************************)
(* The streaming parser: one Parser fed a stream in chunks                 *)
(***************************************************************************)
VARIABLES
    input,      \* ghost: every byte handed to the parser so far
    state,      \* Parser.state
    events,     \* ghost: every event returned so far, last counted from the
                \* start of the stream
    held,       \* ghost: the kinds of state a parse call has returned in
    panicked    \* the entry assertion of parse failed

pvars == <<input, state, events, held, panicked>>

\* an event of a parse call on a buffer that starts at stream offset base
Rebase(ev, base) == [ev EXCEPT !.last = ev.last + base]

\* the variant of a ParsingState, SBData told apart by its iac flag
StateKind(st) == IF st.tag = "SBData" /\ st.iac THEN "SBDataIAC" ELSE st.tag

PInit ==
    /\ input = <<>>
    /\ state = Parser_new
    /\ events = <<>>
    /\ held = {}
    /\ panicked = FALSE

\* the events of a call on a buffer that starts at stream offset base
RebaseAll(evs, base) == [k \in 1..Len(evs) |-> Rebase(evs[k], base)]

\* one call parser.parse(&buffer)
FeedBuffer(buffer) ==
    /\ ~panicked
    /\ LET r == parse(state, buffer)
       IN  IF r.asserted
           THEN /\ state' = r.state
                /\ events' = events \o RebaseAll(r.events, Len(input))
                /\ input' = input \o buffer
                /\ held' = held \cup {StateKind(r.state)}
                /\ panicked' = FALSE
           ELSE /\ panicked' = TRUE
                /\ UNCHANGED <<input, state, events, held>>

\* a parse call on a buffer drawn from chunks, the stream kept within max bytes
Feed(chunks, max) ==
    \E buffer \in chunks :
        /\ Len(input) + Len(buffer) <= max
        /\ FeedBuffer(buffer)

StreamChunks == SeqsUpTo(StreamByte, MaxChunk)
FrameChunks == SeqsUpTo(FrameByte, MaxChunk)

\* a stream of arbitrary bytes
ParseCall == Feed(StreamChunks, MaxInput)
\* a longer stream over the bytes of sub-negotiation frames
ParseFrameCall == Feed(FrameChunks, MaxFrameInput)

(***************************************************************************)
(* The formatter and the parser back to back: a call of a format function  *)
(* and a fresh Parser parsing what it returned                             *)
(***************************************************************************)
VARIABLES
    f_call,     \* the format function called and its arguments
    f_pc,       \* "start", "formatted", "parsed" ("off" outside this harness)
    f_out,      \* the slices the format function returned
    f_state,    \* Parser.state of the fresh parser after parse
    f_events    \* the events parse returned

fvars == <<f_call, f_pc, f_out, f_state, f_events>>

NoCall == [fn |-> "none", src |-> <<>>, action |-> "-", opt |-> NoOpt]

\* the option arguments drawn: two named options, EXOPL (255) and two
\* bytes outside the table, one of them SE
FormatOptions ==
    {<<"Echo">>, <<"TTYPE">>, <<"EXOPL">>, UnknownOption(BYTE_SE), UnknownOption(200)}

Srcs == SeqsUpTo(SrcByte, MaxSrc)

FormatCalls ==
    {[fn |-> "data", src |-> s, action |-> "-", opt |-> NoOpt] : s \in Srcs}
    \cup {[fn |-> "negotiation", src |-> <<>>, action |-> a, opt |-> o] :
            a \in NegotiationAction, o \in FormatOptions}
    \cup {[fn |-> "sub_negotiation", src |-> s, action |-> "-", opt |-> o] :
            s \in Srcs, o \in FormatOptions}

FIdle ==
    /\ f_call = NoCall
    /\ f_pc = "off"
    /\ f_out = <<>>
    /\ f_state = Parser_new
    /\ f_events = <<>>

FInit ==
    /\ f_call \in FormatCalls
    /\ f_pc = "start"
    /\ f_out = <<>>
    /\ f_state = Parser_new
    /\ f_events = <<>>

\* format::data(&src)
FormatData ==
    /\ f_pc = "start" /\ f_call.fn = "data"
    /\ f_out' = data(f_call.src)
    /\ f_pc' = "formatted"
    /\ UNCHANGED <<f_call, f_state, f_events>>

\* format::negotiation(action, opt)
FormatNegotiation ==
    /\ f_pc = "start" /\ f_call.fn = "negotiation"
    /\ f_out' = <<negotiation(f_call.action, f_call.opt)>>
    /\ f_pc' = "formatted"
    /\ UNCHANGED <<f_call, f_state, f_events>>

\* format::sub_negotiation(opt, &src)
FormatSubNegotiation ==
    /\ f_pc = "start" /\ f_call.fn = "sub_negotiation"
    /\ f_out' = <<sub_negotiation(f_call.opt, f_call.src)>>
    /\ f_pc' = "formatted"
    /\ UNCHANGED <<f_call, f_state, f_events>>

\* Parser::new().parse(&bytes), bytes the formatted slices written out in order
ParseFormatted ==
    /\ f_pc = "formatted"
    /\ LET r == parse(Parser_new, to_owned(f_out))
       IN  /\ r.asserted
           /\ f_state' = r.state
           /\ f_events' = r.events
    /\ f_pc' = "parsed"
    /\ UNCHANGED <<f_call, f_out>>

(***************************************************************************)
(* The read path of the Telnet facade (lib.rs), on a transport whose reads *)
(* succeed                                                                 *)
(***************************************************************************)
VARIABLES
    t_cap,          \* the length of Telnet.buffer and Telnet.process_buffer
    event_queue,    \* Telnet.event_queue
    process_buffer, \* Telnet.process_buffer[0..process_buffered_size]
    t_pc,           \* "idle": no call in progress; "read": inside the loop of
                    \* Telnet::read; "panic" ("off" outside this harness)
    wire,           \* ghost: every byte the transport has returned
    delivered       \* ghost: the events returned by read, in order

tvars == <<t_cap, event_queue, process_buffer, t_pc, wire, delivered>>

TIdle ==
    /\ t_cap = 1
    /\ event_queue = <<>>
    /\ process_buffer = <<>>
    /\ t_pc = "off"
    /\ wire = <<>>
    /\ delivered = <<>>

\* Telnet::from_stream(stream, buf_size)
TInit ==
    /\ t_cap \in {from_stream(buf_size) : buf_size \in 0..MaxBufSize}
    /\ event_queue = <<>>
    /\ process_buffer = <<>>
    /\ t_pc = "idle"
    /\ wire = <<>>
    /\ delivered = <<>>

\* Telnet::read with a queued event: the oldest event is returned
ReadQueued ==
    /\ t_pc = "idle" /\ event_queue # <<>>
    /\ delivered' = Append(delivered, Head(event_queue))
    /\ event_queue' = Tail(event_queue)
    /\ UNCHANGED <<t_cap, process_buffer, t_pc, wire>>

\* one iteration of the loop of Telnet::read: the transport read returns
\* bytes (none at the end of the stream), process runs, and read returns the
\* first event queued or loops
ReadTransport(bytes) ==
    /\ t_pc \in {"idle", "read"} /\ event_queue = <<>>
    /\ Len(bytes) <= t_cap
    /\ wire' = wire \o bytes
    /\ LET r == process(process_buffer, bytes, t_cap)
           q == RebaseAll(r.queue, Len(wire))
       IN  /\ process_buffer' = r.pb
           /\ IF r.panicked
              THEN /\ t_pc' = "panic"
                   /\ event_queue' = q
                   /\ UNCHANGED delivered
              ELSE IF q = <<>>
              THEN /\ t_pc' = "read"
                   /\ UNCHANGED <<event_queue, delivered>>
              ELSE /\ t_pc' = "idle"
                   /\ delivered' = Append(delivered, Head(q))
                   /\ event_queue' = Tail(q)
    /\ UNCHANGED t_cap

\* the bytes of a transport read are handed to a Parser as well
ReadAndParse ==
    \E bytes \in StreamChunks :
        /\ Len(wire) + Len(bytes) <= MaxWire
        /\ ReadTransport(bytes)
        /\ FeedBuffer(bytes)

(***************************************************************************)
(* The three read calls of the Telnet facade on a stream whose calls can   *)
(* fail: the fields of the facade harness, and what the last call did      *)
(***************************************************************************)
VARIABLES
    t_buffer,   \* Telnet.buffer[0..buffered_size]
    t_last,     \* ghost: the last read call, what the stream answered and
                \* what the call did and returned
    t_pushed    \* ghost: every event process has pushed, in order

rvars == <<t_buffer, t_last, t_pushed>>

\* the stream is not called
NoIo ==
    [set_nonblocking |-> "-", set_read_timeout |-> "-",
     read |-> [ok |-> FALSE, bytes |-> <<>>, err |-> "-"]]

NoRead == [fn |-> "none", io |-> NoIo, ret |-> Looping, calls |-> <<>>,
           transport |-> FALSE]

RIdle ==
    /\ t_buffer = <<>>
    /\ t_last = NoRead
    /\ t_pushed = <<>>

\* Telnet::from_stream(stream, buf_size)
RInit ==
    /\ t_cap \in {from_stream(buf_size) : buf_size \in {0, MaxReadBuf}}
    /\ event_queue = <<>>
    /\ process_buffer = <<>>
    /\ t_pc = "idle"
    /\ wire = <<>>
    /\ delivered = <<>>
    /\ RIdle

\* what the stream can answer to set_nonblocking, set_read_timeout and read:
\* one of the calls fails, or read returns up to room bytes, none at the end
\* of the stream
StreamOutcomes(room) ==
    {[set_nonblocking |-> "Ok", set_read_timeout |-> "Ok",
      read |-> [ok |-> TRUE, bytes |-> b, err |-> "-"]] :
        b \in SeqsUpTo(ReadByte, room)}
    \cup {[set_nonblocking |-> e, set_read_timeout |-> "-", read |-> NoIo.read] :
            e \in ErrorKind}
    \cup {[set_nonblocking |-> "Ok", set_read_timeout |-> e, read |-> NoIo.read] :
            e \in ErrorKind}
    \cup {[set_nonblocking |-> "Ok", set_read_timeout |-> "Ok",
           read |-> [ok |-> FALSE, bytes |-> <<>>, err |-> e]] : e \in ErrorKind}

\* the number of bytes a transport read can return into buffer
Room == IF t_cap < MaxReadWire - Len(wire) THEN t_cap ELSE MaxReadWire - Len(wire)

Self ==
    [event_queue |-> event_queue, buffer |-> t_buffer,
     process_buffer |-> process_buffer, cap |-> t_cap]

\* the call fn has done c
Called(fn, io, c) ==
    /\ event_queue' = c.self.event_queue
    /\ t_buffer' = c.self.buffer
    /\ process_buffer' = c.self.process_buffer
    /\ wire' = IF c.transport /\ io.read.ok THEN wire \o io.read.bytes ELSE wire
    /\ t_pushed' = t_pushed \o c.pushed
    /\ delivered' = IF c.taken THEN Append(delivered, c.ret.event) ELSE delivered
    /\ t_pc' = IF c.panicked THEN "panic" ELSE IF c.ret = Looping THEN "read" ELSE "idle"
    /\ t_last' = [fn |-> fn, io |-> io, ret |-> c.ret, calls |-> c.calls,
                  transport |-> c.transport]
    /\ UNCHANGED t_cap

\* Telnet::read, up to its return or to the end of an iteration of its loop
Read ==
    /\ t_pc \in {"idle", "read"}
    /\ IF event_queue # <<>>
       THEN Called("read", NoIo, read(Self, NoIo, Len(wire)))
       ELSE \E io \in StreamOutcomes(Room) :
                Called("read", io, read(Self, io, Len(wire)))

\* Telnet::read_timeout(timeout)
ReadTimeout ==
    /\ t_pc = "idle"
    /\ IF event_queue # <<>>
       THEN Called("read_timeout", NoIo, read_timeout(Self, NoIo, Len(wire)))
       ELSE \E io \in StreamOutcomes(Room) :
                Called("read_timeout", io, read_timeout(Self, io, Len(wire)))

\* Telnet::read_nonblocking()
ReadNonblocking ==
    /\ t_pc = "idle"
    /\ IF event_queue # <<>>
       THEN Called("read_nonblocking", NoIo, read_nonblocking(Self, NoIo, Len(wire)))
       ELSE \E io \in StreamOutcomes(Room) :
                Called("read_nonblocking", io, read_nonblocking(Self, io, Len(wire)))

(***************************************************************************)
(* The loop of Telnet::read, one pass at a time: every pass is a step,     *)
(* also one whose transport read brings nothing new                        *)
(***************************************************************************)
VARIABLES
    t_iter      \* ghost: the parity of the number of passes read has made

lvars == <<t_iter>>

LIdle == t_iter = 0

\* one pass of Telnet::read: the loop test, and either the return of the
\* oldest event or the stream calls and process of one iteration
ReadPass ==
    /\ Read
    /\ t_iter' = 1 - t_iter

(***************************************************************************)
(* The write calls of the Telnet facade on a stream whose writes can fail  *)
(***************************************************************************)
VARIABLES
    w_call,     \* the call made and its arguments
    w_pc,       \* "start", "done" ("off" outside this harness)
    w_stream,   \* the stream written to
    w_ret       \* the value the call returned

wvars == <<w_call, w_pc, w_stream, w_ret>>

WriteErrorKind == {"BrokenPipe", "WouldBlock"}

NoFail == [at |-> 0, cut |-> 0, err |-> "-"]

\* the stream fails on none of the write_all calls, or on one of the first
\* MaxFailAt, after taking none or one of the bytes
Fails ==
    {NoFail} \cup [at : 1..MaxFailAt, cut : {0, 1}, err : WriteErrorKind]

WriteCalls ==
    {[fn |-> "write", src |-> s, action |-> "-", opt |-> NoOpt] : s \in Srcs}
    \cup {[fn |-> "negotiate", src |-> <<>>, action |-> a, opt |-> o] :
            a \in NegotiationAction, o \in FormatOptions}
    \cup {[fn |-> "subnegotiate", src |-> s, action |-> "-", opt |-> o] :
            s \in Srcs, o \in FormatOptions}

WIdle ==
    /\ w_call = NoCall
    /\ w_pc = "off"
    /\ w_stream = [out |-> <<>>, calls |-> <<>>, fail |-> NoFail]
    /\ w_ret = Err_of(<<>>)

WInit ==
    /\ w_call \in WriteCalls
    /\ w_pc = "start"
    /\ w_stream \in {[out |-> <<>>, calls |-> <<>>, fail |-> f] : f \in Fails}
    /\ w_ret = Err_of(<<>>)

\* the call has done r
Written(r) ==
    /\ w_stream' = r.st
    /\ w_ret' = r.ret
    /\ w_pc' = "done"
    /\ UNCHANGED w_call

\* telnet.write(&src)
Write == w_pc = "start" /\ w_call.fn = "write" /\ Written(write(w_stream, w_call.src))

\* telnet.negotiate(&action, opt)
Negotiate ==
    /\ w_pc = "start" /\ w_call.fn = "negotiate"
    /\ Written(negotiate(w_stream, w_call.action, w_call.opt))

\* telnet.subnegotiate(opt, &src)
Subnegotiate ==
    /\ w_pc = "start" /\ w_call.fn = "subnegotiate"
    /\ Written(subnegotiate(w_stream, w_call.opt, w_call.src))

(***************************************************************************)
(* A ZlibStream and the calls made on it                                   *)
(***************************************************************************)
VARIABLES
    z_stream,   \* ZlibStream.stream, the switch
    z_last      \* ghost: the last call on the ZlibStream, the mode it found
                \* and what it returned

zvars == <<z_stream, z_last>>

NoZCall == [op |-> "none", buf |-> <<>>, flag |-> "-", tag |-> "Plain",
            ret |-> [inflated |-> FALSE, bytes |-> <<>>]]

\* the buffers written and the bytes read
ZBufs == SeqsUpTo({BYTE_IAC}, MaxZBuf)

ZIdle ==
    /\ z_stream = ZlibStreamSwitch_Plain(<<>>)
    /\ z_last = NoZCall

\* ZlibStream::from_stream(stream)
ZInit ==
    /\ z_stream = ZlibStream_from_stream(<<>>)
    /\ z_last = NoZCall

\* the call op has left the switch zs
ZCalled(op, buf, flag, zs, ret) ==
    /\ z_stream' = zs
    /\ z_last' = [op |-> op, buf |-> buf, flag |-> flag, tag |-> z_stream.tag,
                  ret |-> ret]

\* the underlying stream takes one more call
ZRoom == Len(z_stream.stream) < MaxZCalls

ZBeginZlib == ZCalled("begin_zlib", <<>>, "-", begin_zlib(z_stream), NoZCall.ret)

ZEndZlib == ZCalled("end_zlib", <<>>, "-", end_zlib(z_stream), NoZCall.ret)

ZRead ==
    /\ ZRoom
    /\ \E bytes \in ZBufs :
          LET r == ZlibStream_read(z_stream, bytes)
          IN  ZCalled("read", <<>>, "-", r.zs, r.ret)

ZWrite ==
    /\ ZRoom
    /\ \E buf \in ZBufs :
          ZCalled("write", buf, "-", ZlibStream_write(z_stream, buf), NoZCall.ret)

ZFlush ==
    /\ ZRoom
    /\ ZCalled("flush", <<>>, "-", ZlibStream_flush(z_stream), NoZCall.ret)

ZSetNonblocking ==
    /\ ZRoom
    /\ \E nonblocking \in {"true", "false"} :
          ZCalled("set_nonblocking", <<>>, nonblocking,
                  ZlibStream_set_nonblocking(z_stream, nonblocking), NoZCall.ret)

ZSetReadTimeout ==
    /\ ZRoom
    /\ \E dur \in {"None", "Some(dur)"} :
          ZCalled("set_read_timeout", <<>>, dur,
                  ZlibStream_set_read_timeout(z_stream, dur), NoZCall.ret)

(***************************************************************************)
(* A TelnetConnection whose process is run on what its stream reads        *)
(***************************************************************************)
VARIABLES
    c_cap,      \* the length of buffer and of process_buffer
    c_configs,  \* TelnetConnection.option_configs
    c_pb,       \* process_buffer[0 .. process_buffered_size]
    c_map,      \* negotiation_sm.map
    c_pc,       \* "ready", or "panicked" once process has panicked
    c_reads,    \* ghost: the number of reads processed
    c_last      \* ghost: the last buffer processed, the process buffer and
                \* the map before it, the events pushed and the negotiations
                \* sent

cvars == <<c_cap, c_configs, c_pb, c_map, c_pc, c_reads, c_last>>

\* the bytes the stream delivers: a data byte, which is also the byte of
\* Echo, and the bytes of IAC DO and IAC WILL
ConnByte == {1, BYTE_DO, BYTE_WILL, BYTE_IAC}

\* the option whose policy is configured
COption == TelnetOption_parse(1)

NoProcess == [buffer |-> <<>>, pre_pb |-> <<>>, pre_map |-> <<>>,
              queue |-> <<>>, sent |-> <<>>]

CIdle ==
    /\ c_cap = 1
    /\ c_configs = <<>>
    /\ c_pb = <<>>
    /\ c_map = NegotiationSM_new
    /\ c_pc = "off"
    /\ c_reads = 0
    /\ c_last = NoProcess

\* TelnetConnection::new(tcp_stream, option_configs, buf_size)
CInit ==
    /\ c_cap \in {TelnetConnection_new(0), TelnetConnection_new(MaxConnBuf)}
    /\ c_configs \in [{COption} -> [local_allowed : BOOLEAN, remote_allowed : BOOLEAN]]
    /\ c_pb = <<>>
    /\ c_map = NegotiationSM_new
    /\ c_pc = "ready"
    /\ c_reads = 0
    /\ c_last = NoProcess

\* the read of read_event returns buffer, and process runs on it
ConnProcess ==
    /\ c_pc = "ready"
    /\ c_reads < MaxConnReads
    /\ \E buffer \in SeqsUpTo(ConnByte, c_cap) :
          LET m == TelnetConnection_process(c_pb, c_map, buffer, c_cap, c_configs)
          IN  /\ c_pb' = m.pb
              /\ c_map' = m.map
              /\ c_pc' = IF m.panicked THEN "panicked" ELSE "ready"
              /\ c_last' = [buffer |-> buffer, pre_pb |-> c_pb, pre_map |-> c_map,
                            queue |-> m.queue, sent |-> m.sent]
    /\ c_reads' = c_reads + 1
    /\ UNCHANGED <<c_cap, c_configs>>

(***************************************************************************)
(* TelnetOption conversions back to back: parse then as_byte on a byte,    *)
(* as_byte then parse on a TelnetOption value                              *)
(***************************************************************************)
VARIABLES
    o_call,     \* the conversion pair called and its argument
    o_pc,       \* "start", "half", "done" ("off" outside this harness)
    o_byte,     \* the u8 computed
    o_opt       \* the TelnetOption computed

ovars == <<o_call, o_pc, o_byte, o_opt>>

\* every u8
Bytes == 0..255

\* every value of the enum TelnetOption: the named variants and
\* UnknownOption(b) for every u8 b
TelnetOptions ==
    {<<OptionTable[k][2]>> : k \in 1..Len(OptionTable)}
        \cup {UnknownOption(b) : b \in Bytes}

OptionCalls ==
    {[fn |-> "parse_as_byte", byte |-> b, opt |-> NoOpt] : b \in Bytes}
    \cup {[fn |-> "as_byte_parse", byte |-> 0, opt |-> o] : o \in TelnetOptions}

OIdle ==
    /\ o_call = [fn |-> "none", byte |-> 0, opt |-> NoOpt]
    /\ o_pc = "off"
    /\ o_byte = 0
    /\ o_opt = NoOpt

OInit ==
    /\ o_call \in OptionCalls
    /\ o_pc = "start"
    /\ o_byte = 0
    /\ o_opt = NoOpt

\* TelnetOption::parse(byte)
OptionParse ==
    /\ o_pc = "start" /\ o_call.fn = "parse_as_byte"
    /\ o_opt' = TelnetOption_parse(o_call.byte)
    /\ o_pc' = "half"
    /\ UNCHANGED <<o_call, o_byte>>

\* .as_byte() of the option parsed
OptionParseAsByte ==
    /\ o_pc = "half" /\ o_call.fn = "parse_as_byte"
    /\ o_byte' = TelnetOption_as_byte(o_opt)
    /\ o_pc' = "done"
    /\ UNCHANGED <<o_call, o_opt>>

\* opt.as_byte()
OptionAsByte ==
    /\ o_pc = "start" /\ o_call.fn = "as_byte_parse"
    /\ o_byte' = TelnetOption_as_byte(o_call.opt)
    /\ o_pc' = "half"
    /\ UNCHANGED <<o_call, o_opt>>

\* TelnetOption::parse of the byte computed
OptionAsByteParse ==
    /\ o_pc = "half" /\ o_call.fn = "as_byte_parse"
    /\ o_opt' = TelnetOption_parse(o_byte)
    /\ o_pc' = "done"
    /\ UNCHANGED <<o_call, o_byte>>

(***************************************************************************)
(* One NegotiationSM driven by its eight entry points: negotiations        *)
(* received from the peer (connection.rs dispatches them) and requests of  *)
(* the local user. The queue and the stream are observed per call.         *)
(***************************************************************************)
VARIABLES
    q_map,      \* NegotiationSM.map
    q_last      \* ghost: the last call, the map before it, what it pushed
                \* to the queue and what it sent

qvars == <<q_map, q_last>>

\* the options negotiated: a named option and a byte the table does not name
QOptions == {<<"Echo">>, UnknownOption(200)}

QNoCall ==
    [op |-> "none", opt |-> NoOpt, flag |-> FALSE, is_us |-> FALSE,
     pre_map |-> <<>>, queue |-> <<>>, sent |-> <<>>]

\* the kinds of the events that report a side enabled and disabled
EnabledKind(is_us) == IF is_us THEN "LocalShouldEnable" ELSE "RemoteEnabled"
DisabledKind(is_us) == IF is_us THEN "LocalShouldDisable" ELSE "RemoteDisabled"

\* the last report about side is_us of option o in queue, or seen if none
RECURSIVE LastReport(_, _, _, _)
LastReport(queue, o, is_us, seen) ==
    IF queue = <<>> THEN seen
    ELSE LET e == queue[Len(queue)]
         IN  IF e.opt = o /\ e.kind = EnabledKind(is_us) THEN "Enabled"
             ELSE IF e.opt = o /\ e.kind = DisabledKind(is_us) THEN "Disabled"
             ELSE LastReport(SubSeq(queue, 1, Len(queue) - 1), o, is_us, seen)

QIdle ==
    /\ q_map = NegotiationSM_new
    /\ q_last = QNoCall

QInit ==
    /\ q_map = NegotiationSM_new
    /\ q_last = QNoCall

\* a call that starts on an empty queue and leaves m
QCalled(op, opt, flag, is_us, m) ==
    /\ q_map' = m.map
    /\ q_last' = [op |-> op, opt |-> opt, flag |-> flag, is_us |-> is_us,
                  pre_map |-> q_map, queue |-> m.queue, sent |-> m.sent]

QStart == [map |-> q_map, queue |-> <<>>, sent |-> <<>>]

\* connection.rs: IAC WILL opt received
QReceiveWill ==
    \E opt \in QOptions, is_remote_allowed \in BOOLEAN :
        QCalled("receive_will", opt, is_remote_allowed, FALSE,
                receive_will(QStart, opt, is_remote_allowed))

\* connection.rs: IAC WONT opt received
QReceiveWont ==
    \E opt \in QOptions :
        QCalled("receive_wont", opt, FALSE, FALSE, receive_wont(QStart, opt))

\* connection.rs: IAC DO opt received
QReceiveDo ==
    \E opt \in QOptions, is_local_supported \in BOOLEAN :
        QCalled("receive_do", opt, is_local_supported, TRUE,
                receive_do(QStart, opt, is_local_supported))

\* connection.rs: IAC DONT opt received
QReceiveDont ==
    \E opt \in QOptions :
        QCalled("receive_dont", opt, FALSE, TRUE, receive_dont(QStart, opt))

QInformEnabled ==
    \E opt \in QOptions :
        QCalled("inform_enabled", opt, FALSE, TRUE, inform_enabled(QStart, opt))

QInformDisable ==
    \E opt \in QOptions :
        QCalled("inform_disable", opt, FALSE, TRUE, inform_disable(QStart, opt))

QAskToEnable ==
    \E opt \in QOptions :
        QCalled("ask_to_enable", opt, FALSE, FALSE, ask_to_enable(QStart, opt))

QAskToDisable ==
    \E opt \in QOptions :
        QCalled("ask_to_disable", opt, FALSE, FALSE, ask_to_disable(QStart, opt))

(***************************************************************************)
(* One NegotiationSM negotiating one option, and what it has reported to   *)
(* the application about each side of the option                           *)
(***************************************************************************)
VARIABLES
    h_map,      \* NegotiationSM.map
    h_seen,     \* ghost: per side, the last RemoteEnabled / RemoteDisabled
                \* (him) or LocalShouldEnable / LocalShouldDisable (us)
                \* event pushed so far
    h_last      \* ghost: the last call, the map before it and what it pushed

hvars == <<h_map, h_seen, h_last>>

\* the option negotiated
HOption == <<"Echo">>

HNoCall == [op |-> "none", flag |-> FALSE, is_us |-> FALSE, pre_map |-> <<>>,
            queue |-> <<>>]

HIdle ==
    /\ h_map = NegotiationSM_new
    /\ h_seen = [is_us \in BOOLEAN |-> "none"]
    /\ h_last = HNoCall

\* NegotiationSM::new()
HInit ==
    /\ h_map = NegotiationSM_new
    /\ h_seen = [is_us \in BOOLEAN |-> "none"]
    /\ h_last = HNoCall

\* a call that starts on an empty queue and leaves m
HCalled(op, flag, is_us, m) ==
    /\ h_map' = m.map
    /\ h_last' = [op |-> op, flag |-> flag, is_us |-> is_us, pre_map |-> h_map,
                  queue |-> m.queue]
    /\ h_seen' = [side \in BOOLEAN |-> LastReport(m.queue, HOption, side, h_seen[side])]

HStart == [map |-> h_map, queue |-> <<>>, sent |-> <<>>]

HReceiveWill ==
    \E is_remote_allowed \in BOOLEAN :
        HCalled("receive_will", is_remote_allowed, FALSE,
                receive_will(HStart, HOption, is_remote_allowed))

HReceiveWont == HCalled("receive_wont", FALSE, FALSE, receive_wont(HStart, HOption))

HReceiveDo ==
    \E is_local_supported \in BOOLEAN :
        HCalled("receive_do", is_local_supported, TRUE,
                receive_do(HStart, HOption, is_local_supported))

HReceiveDont == HCalled("receive_dont", FALSE, TRUE, receive_dont(HStart, HOption))

HInformEnabled == HCalled("inform_enabled", FALSE, TRUE, inform_enabled(HStart, HOption))

HInformDisable == HCalled("inform_disable", FALSE, TRUE, inform_disable(HStart, HOption))

HAskToEnable == HCalled("ask_to_enable", FALSE, FALSE, ask_to_enable(HStart, HOption))

HAskToDisable == HCalled("ask_to_disable", FALSE, FALSE, ask_to_disable(HStart, HOption))

(***************************************************************************)
(* Two connected peers, each with a NegotiationSM, negotiating one option: *)
(* what one sends the other receives, in order. The him side of a peer     *)
(* faces the us side of the other.                                         *)
(***************************************************************************)
VARIABLES
    x_sm,       \* NegotiationSM.map of each peer
    x_chan,     \* the negotiations sent to each peer and not yet received
    x_allowed,  \* option_configs.is_him_allowed(&opt) of each peer
    x_req,      \* ghost: the number of local requests made so far
    x_hops,     \* ghost: per peer and side, the state changes since the side
                \* was last in No or Yes (counted up to 5)
    x_recv      \* ghost: per peer and side, the state changes made by
                \* received negotiations since the side was last in No or
                \* Yes or its user last made a request

xvars == <<x_sm, x_chan, x_allowed, x_req, x_hops, x_recv>>

Peers == {"A", "B"}
Other(p) == IF p = "A" THEN "B" ELSE "A"

\* the option the peers negotiate
XOption == <<"Echo">>

XIdle ==
    /\ x_sm = [p \in Peers |-> NegotiationSM_new]
    /\ x_chan = [p \in Peers |-> <<>>]
    /\ x_allowed = [p \in Peers |-> FALSE]
    /\ x_req = 0
    /\ x_hops = [p \in Peers |-> [is_us \in BOOLEAN |-> 0]]
    /\ x_recv = [p \in Peers |-> [is_us \in BOOLEAN |-> 0]]

\* two connections, each built with NegotiationSM::new() and its own
\* option_configs
XInit ==
    /\ x_sm = [p \in Peers |-> NegotiationSM_new]
    /\ x_chan = [p \in Peers |-> <<>>]
    /\ x_allowed \in [Peers -> BOOLEAN]
    /\ x_req = 0
    /\ x_hops = [p \in Peers |-> [is_us \in BOOLEAN |-> 0]]
    /\ x_recv = [p \in Peers |-> [is_us \in BOOLEAN |-> 0]]

\* the counters of a side whose state a call took from from to to
Hops(n, from, to) ==
    IF from = to THEN n
    ELSE IF from \in {"No", "Yes"} THEN 1
    ELSE IF n >= 5 THEN 5 ELSE n + 1

Recv(n, from, to, received) ==
    IF from = to THEN n
    ELSE IF ~received THEN 0
    ELSE IF from \in {"No", "Yes"} THEN (IF to \in {"No", "Yes"} THEN 0 ELSE 1)
    ELSE n + 1

\* peer p has run a call that left m: its map is kept, what it sent is on
\* the way to the other peer
XCalled(p, m, received) ==
    /\ x_sm' = [x_sm EXCEPT ![p] = m.map]
    /\ x_hops' = [x_hops EXCEPT ![p] = [is_us \in BOOLEAN |->
                    Hops(x_hops[p][is_us], get_state(x_sm[p], is_us, XOption),
                         get_state(m.map, is_us, XOption))]]
    /\ x_recv' = [x_recv EXCEPT ![p] = [is_us \in BOOLEAN |->
                    Recv(x_recv[p][is_us], get_state(x_sm[p], is_us, XOption),
                         get_state(m.map, is_us, XOption), received)]]
    /\ x_chan' = IF received
                 THEN [x_chan EXCEPT ![p] = Tail(x_chan[p]),
                                     ![Other(p)] = x_chan[Other(p)] \o m.sent]
                 ELSE [x_chan EXCEPT ![Other(p)] = x_chan[Other(p)] \o m.sent]
    /\ UNCHANGED x_allowed

XStart(p) == [map |-> x_sm[p], queue |-> <<>>, sent |-> <<>>]

\* the user of peer p calls one of the four local requests
PeerRequest(p) ==
    /\ x_req < MaxRequests
    /\ Len(x_chan[Other(p)]) < MaxFlight
    /\ x_req' = x_req + 1
    /\ \E op \in {"ask_to_enable", "ask_to_disable", "inform_enabled", "inform_disable"} :
          XCalled(p, CASE op = "ask_to_enable" -> ask_to_enable(XStart(p), XOption)
                       [] op = "ask_to_disable" -> ask_to_disable(XStart(p), XOption)
                       [] op = "inform_enabled" -> inform_enabled(XStart(p), XOption)
                       [] op = "inform_disable" -> inform_disable(XStart(p), XOption),
                  FALSE)

\* peer p reads the next negotiation sent to it: the Will / Wont / Do / Dont
\* arm of TelnetConnection::process
PeerReceive(p) ==
    /\ x_chan[p] # <<>>
    /\ LET n == Head(x_chan[p])
           him_allowed == x_allowed[p]
       IN  XCalled(p, CASE n.action = "Will" ->
                              receive_will(XStart(p), n.opt, him_allowed)
                        [] n.action = "Wont" -> receive_wont(XStart(p), n.opt)
                        [] n.action = "Do" ->
                              receive_do(XStart(p), n.opt, him_allowed)
                        [] n.action = "Dont" -> receive_dont(XStart(p), n.opt),
                  TRUE)
    /\ UNCHANGED x_req

(***************************************************************************)
(* Specifications                                                          *)
(***************************************************************************)
vars == <<pvars, fvars, tvars, rvars, wvars, zvars, cvars, ovars, qvars, hvars, lvars, xvars>>

Init == PInit /\ FIdle /\ TIdle /\ RIdle /\ WIdle /\ ZIdle /\ CIdle /\ OIdle /\ QIdle /\ HIdle /\ LIdle /\ XIdle
Next == ParseCall /\ UNCHANGED <<fvars, tvars, rvars, wvars, zvars, cvars, ovars, qvars, hvars, lvars, xvars>>
Spec == Init /\ [][Next]_vars

NextFrames == ParseFrameCall /\ UNCHANGED <<fvars, tvars, rvars, wvars, zvars, cvars, ovars, qvars, hvars, lvars, xvars>>
SpecFrames == Init /\ [][NextFrames]_vars

InitFormat == FInit /\ PInit /\ TIdle /\ RIdle /\ WIdle /\ ZIdle /\ CIdle /\ OIdle /\ QIdle /\ HIdle /\ LIdle /\ XIdle
NextFormat ==
    \/ FormatData /\ UNCHANGED <<pvars, tvars, rvars, wvars, zvars, cvars, ovars, qvars, hvars, lvars, xvars>>
    \/ FormatNegotiation /\ UNCHANGED <<pvars, tvars, rvars, wvars, zvars, cvars, ovars, qvars, hvars, lvars, xvars>>
    \/ FormatSubNegotiation /\ UNCHANGED <<pvars, tvars, rvars, wvars, zvars, cvars, ovars, qvars, hvars, lvars, xvars>>
    \/ ParseFormatted /\ UNCHANGED <<pvars, tvars, rvars, wvars, zvars, cvars, ovars, qvars, hvars, lvars, xvars>>
SpecFormat == InitFormat /\ [][NextFormat]_vars

InitFacade == TInit /\ RIdle /\ WIdle /\ ZIdle /\ CIdle /\ PInit /\ FIdle /\ OIdle /\ QIdle /\ HIdle /\ LIdle /\ XIdle
NextFacade ==
    \/ ReadQueued /\ UNCHANGED <<pvars, fvars, rvars, wvars, zvars, cvars, ovars, qvars, hvars, lvars, xvars>>
    \/ ReadAndParse /\ UNCHANGED <<fvars, rvars, wvars, zvars, cvars, ovars, qvars, hvars, lvars, xvars>>
SpecFacade == InitFacade /\ [][NextFacade]_vars

InitReads == RInit /\ WIdle /\ ZIdle /\ CIdle /\ PInit /\ FIdle /\ OIdle /\ QIdle /\ HIdle /\ LIdle /\ XIdle
NextReads ==
    \/ Read /\ UNCHANGED <<pvars, fvars, wvars, zvars, cvars, ovars, qvars, hvars, lvars, xvars>>
    \/ ReadTimeout /\ UNCHANGED <<pvars, fvars, wvars, zvars, cvars, ovars, qvars, hvars, lvars, xvars>>
    \/ ReadNonblocking /\ UNCHANGED <<pvars, fvars, wvars, zvars, cvars, ovars, qvars, hvars, lvars, xvars>>
SpecReads == InitReads /\ [][NextReads]_vars

InitReadLoop == RInit /\ LIdle /\ WIdle /\ ZIdle /\ CIdle /\ PInit /\ FIdle /\ OIdle /\ QIdle /\ HIdle /\ XIdle
NextReadLoop ==
    ReadPass /\ UNCHANGED <<pvars, fvars, wvars, zvars, cvars, ovars, qvars, hvars, xvars>>
\* every call the stream is given returns, and read runs on: a pass that can
\* be made is made
SpecReadLoop == InitReadLoop /\ [][NextReadLoop]_vars /\ WF_vars(NextReadLoop)

InitWrites == WInit /\ ZIdle /\ CIdle /\ PInit /\ FIdle /\ TIdle /\ RIdle /\ OIdle /\ QIdle /\ HIdle /\ LIdle /\ XIdle
NextWrites ==
    \/ Write /\ UNCHANGED <<pvars, fvars, tvars, rvars, zvars, cvars, ovars, qvars, hvars, lvars, xvars>>
    \/ Negotiate /\ UNCHANGED <<pvars, fvars, tvars, rvars, zvars, cvars, ovars, qvars, hvars, lvars, xvars>>
    \/ Subnegotiate /\ UNCHANGED <<pvars, fvars, tvars, rvars, zvars, cvars, ovars, qvars, hvars, lvars, xvars>>
SpecWrites == InitWrites /\ [][NextWrites]_vars

InitZlib == ZInit /\ CIdle /\ PInit /\ FIdle /\ TIdle /\ RIdle /\ WIdle /\ OIdle /\ QIdle /\ HIdle /\ LIdle /\ XIdle
NextZlib ==
    \/ ZBeginZlib /\ UNCHANGED <<pvars, fvars, tvars, rvars, wvars, cvars, ovars, qvars, hvars, lvars, xvars>>
    \/ ZEndZlib /\ UNCHANGED <<pvars, fvars, tvars, rvars, wvars, cvars, ovars, qvars, hvars, lvars, xvars>>
    \/ ZRead /\ UNCHANGED <<pvars, fvars, tvars, rvars, wvars, cvars, ovars, qvars, hvars, lvars, xvars>>
    \/ ZWrite /\ UNCHANGED <<pvars, fvars, tvars, rvars, wvars, cvars, ovars, qvars, hvars, lvars, xvars>>
    \/ ZFlush /\ UNCHANGED <<pvars, fvars, tvars, rvars, wvars, cvars, ovars, qvars, hvars, lvars, xvars>>
    \/ ZSetNonblocking /\ UNCHANGED <<pvars, fvars, tvars, rvars, wvars, cvars, ovars, qvars, hvars, lvars, xvars>>
    \/ ZSetReadTimeout /\ UNCHANGED <<pvars, fvars, tvars, rvars, wvars, cvars, ovars, qvars, hvars, lvars, xvars>>
SpecZlib == InitZlib /\ [][NextZlib]_vars

InitConnection == CInit /\ PInit /\ FIdle /\ TIdle /\ RIdle /\ WIdle /\ ZIdle /\ OIdle /\ QIdle /\ HIdle /\ LIdle /\ XIdle
NextConnection ==
    ConnProcess /\ UNCHANGED <<pvars, fvars, tvars, rvars, wvars, zvars, ovars, qvars, hvars, lvars, xvars>>
SpecConnection == InitConnection /\ [][NextConnection]_vars

InitOption == OInit /\ PInit /\ FIdle /\ TIdle /\ RIdle /\ WIdle /\ ZIdle /\ CIdle /\ QIdle /\ HIdle /\ LIdle /\ XIdle
NextOption ==
    \/ OptionParse /\ UNCHANGED <<pvars, fvars, tvars, rvars, wvars, zvars, cvars, qvars, hvars, lvars, xvars>>
    \/ OptionParseAsByte /\ UNCHANGED <<pvars, fvars, tvars, rvars, wvars, zvars, cvars, qvars, hvars, lvars, xvars>>
    \/ OptionAsByte /\ UNCHANGED <<pvars, fvars, tvars, rvars, wvars, zvars, cvars, qvars, hvars, lvars, xvars>>
    \/ OptionAsByteParse /\ UNCHANGED <<pvars, fvars, tvars, rvars, wvars, zvars, cvars, qvars, hvars, lvars, xvars>>
SpecOption == InitOption /\ [][NextOption]_vars

InitNegotiation == QInit /\ HIdle /\ LIdle /\ PInit /\ FIdle /\ TIdle /\ RIdle /\ WIdle /\ ZIdle /\ CIdle /\ OIdle /\ XIdle
NextNegotiation ==
    \/ QReceiveWill /\ UNCHANGED <<pvars, fvars, tvars, rvars, wvars, zvars, cvars, ovars, hvars, lvars, xvars>>
    \/ QReceiveWont /\ UNCHANGED <<pvars, fvars, tvars, rvars, wvars, zvars, cvars, ovars, hvars, lvars, xvars>>
    \/ QReceiveDo /\ UNCHANGED <<pvars, fvars, tvars, rvars, wvars, zvars, cvars, ovars, hvars, lvars, xvars>>
    \/ QReceiveDont /\ UNCHANGED <<pvars, fvars, tvars, rvars, wvars, zvars, cvars, ovars, hvars, lvars, xvars>>
    \/ QInformEnabled /\ UNCHANGED <<pvars, fvars, tvars, rvars, wvars, zvars, cvars, ovars, hvars, lvars, xvars>>
    \/ QInformDisable /\ UNCHANGED <<pvars, fvars, tvars, rvars, wvars, zvars, cvars, ovars, hvars, lvars, xvars>>
    \/ QAskToEnable /\ UNCHANGED <<pvars, fvars, tvars, rvars, wvars, zvars, cvars, ovars, hvars, lvars, xvars>>
    \/ QAskToDisable /\ UNCHANGED <<pvars, fvars, tvars, rvars, wvars, zvars, cvars, ovars, hvars, lvars, xvars>>
SpecNegotiation == InitNegotiation /\ [][NextNegotiation]_vars

InitReports == HInit /\ PInit /\ FIdle /\ TIdle /\ RIdle /\ WIdle /\ ZIdle /\ CIdle /\ OIdle /\ QIdle /\ LIdle /\ XIdle
NextReports ==
    \/ HReceiveWill /\ UNCHANGED <<pvars, fvars, tvars, rvars, wvars, zvars, cvars, ovars, qvars, lvars, xvars>>
    \/ HReceiveWont /\ UNCHANGED <<pvars, fvars, tvars, rvars, wvars, zvars, cvars, ovars, qvars, lvars, xvars>>
    \/ HReceiveDo /\ UNCHANGED <<pvars, fvars, tvars, rvars, wvars, zvars, cvars, ovars, qvars, lvars, xvars>>
    \/ HReceiveDont /\ UNCHANGED <<pvars, fvars, tvars, rvars, wvars, zvars, cvars, ovars, qvars, lvars, xvars>>
    \/ HInformEnabled /\ UNCHANGED <<pvars, fvars, tvars, rvars, wvars, zvars, cvars, ovars, qvars, lvars, xvars>>
    \/ HInformDisable /\ UNCHANGED <<pvars, fvars, tvars, rvars, wvars, zvars, cvars, ovars, qvars, lvars, xvars>>
    \/ HAskToEnable /\ UNCHANGED <<pvars, fvars, tvars, rvars, wvars, zvars, cvars, ovars, qvars, lvars, xvars>>
    \/ HAskToDisable /\ UNCHANGED <<pvars, fvars, tvars, rvars, wvars, zvars, cvars, ovars, qvars, lvars, xvars>>
SpecReports == InitReports /\ [][NextReports]_vars

InitPeers == XInit /\ PInit /\ FIdle /\ TIdle /\ RIdle /\ WIdle /\ ZIdle /\ CIdle /\ OIdle /\ QIdle /\ HIdle /\ LIdle
NextPeers ==
    \/ \E p \in Peers : PeerRequest(p) /\ UNCHANGED <<pvars, fvars, tvars, rvars, wvars, zvars, cvars, ovars, qvars, hvars, lvars>>
    \/ \E p \in Peers : PeerReceive(p) /\ UNCHANGED <<pvars, fvars, tvars, rvars, wvars, zvars, cvars, ovars, qvars, hvars, lvars>>
SpecPeers == InitPeers /\ [][NextPeers]_vars
\* each peer goes on reading what the other has sent
SpecPeersFair ==
    SpecPeers /\ \A p \in Peers : WF_vars(PeerReceive(p) /\ UNCHANGED <<pvars, fvars, tvars, rvars, wvars, zvars, cvars, ovars, qvars, hvars, lvars>>)

(***************************************************************************)
(* Properties of the formatter                                             *)
(***************************************************************************)
\* src with every 0xFF byte written twice
RECURSIVE Escape(_)
Escape(s) ==
    IF s = <<>> THEN <<>>
    ELSE (IF Head(s) = 255 THEN <<255, 255>> ELSE <<Head(s)>>) \o Escape(Tail(s))

RECURSIVE Flatten(_)
Flatten(slices) ==
    IF slices = <<>> THEN <<>> ELSE Head(slices) \o Flatten(Tail(slices))

CountIAC(s) == Cardinality({k \in 1..Len(s) : s[k] = 255})

Formatted == f_pc \in {"formatted", "parsed"}

\* C9: the slices of format::data(src) concatenate to src with every 0xFF
\* doubled, every other byte unchanged and in order; the output is
\* |src| + #0xFF bytes long and an empty src yields no bytes.
C9_DataDoublesIAC ==
    (Formatted /\ f_call.fn = "data") =>
        /\ Flatten(f_out) = Escape(f_call.src)
        /\ Len(Flatten(f_out)) = Len(f_call.src) + CountIAC(f_call.src)
        /\ (f_call.src = <<>> => Flatten(f_out) = <<>>)

C9_Witness ==
    /\ Formatted /\ f_call.fn = "data"
    /\ f_call.src = <<1, 255, 255, 240>>
    /\ Flatten(f_out) = <<1, 255, 255, 255, 255, 240>>

\* the byte of the options drawn as arguments, from the RFC 1340 registry
ExpectedOptByte(opt) ==
    CASE opt = <<"Echo">> -> 1
      [] opt = <<"TTYPE">> -> 24
      [] opt = <<"EXOPL">> -> 255
      [] OTHER -> opt[2]

ExpectedActionByte(action) ==
    CASE action = "Will" -> 251
      [] action = "Wont" -> 252
      [] action = "Do" -> 253
      [] action = "Dont" -> 254

\* C10: format::sub_negotiation(opt, params) is [0xFF, 0xFA, opt_byte], then
\* params with every 0xFF doubled, then [0xFF, 0xF0]; format::negotiation(
\* action, opt) is the 3 bytes [0xFF, action_byte, opt_byte] with the action
\* bytes Will=251, Wont=252, Do=253, Dont=254.
C10_FrameLayout ==
    /\ (Formatted /\ f_call.fn = "sub_negotiation") =>
          Flatten(f_out) = <<255, 250, ExpectedOptByte(f_call.opt)>>
                              \o Escape(f_call.src) \o <<255, 240>>
    /\ (Formatted /\ f_call.fn = "negotiation") =>
          Flatten(f_out) = <<255, ExpectedActionByte(f_call.action),
                             ExpectedOptByte(f_call.opt)>>

C10_Witness ==
    /\ Formatted /\ f_call.fn = "sub_negotiation"
    /\ f_call.opt = <<"TTYPE">> /\ f_call.src = <<1, 255, 240>>
    /\ Flatten(f_out) = <<255, 250, 24, 1, 255, 255, 240, 255, 240>>

(***************************************************************************)
(* Round trips: format, then parse with a fresh parser                     *)
(***************************************************************************)
Parsed == f_pc = "parsed"

\* the payloads of the Data events of evs, in order
RECURSIVE DataPayload(_)
DataPayload(evs) ==
    IF evs = <<>> THEN <<>>
    ELSE (IF Head(evs).kind = "Data" THEN Head(evs).data ELSE <<>>)
            \o DataPayload(Tail(evs))

\* C2: escape round trip: parsing the bytes of format::data(s) with a fresh
\* parser yields only Data events, and their payloads concatenate to s.
C2_EscapeRoundTrip ==
    (Parsed /\ f_call.fn = "data") =>
        /\ \A k \in 1..Len(f_events) : f_events[k].kind = "Data"
        /\ DataPayload(f_events) = f_call.src

C2_Witness ==
    /\ Parsed /\ f_call.fn = "data"
    /\ f_call.src = <<1, 255, 255, 240>>
    /\ Len(f_events) = 3

Token(kind, first, last, byte, raw) ==
    [kind |-> kind, first |-> first, last |-> last, byte |-> byte, raw |-> raw]

\* the 0-based offset of the SE that ends the frame whose payload starts at
\* j, or -1: the payload is read byte by byte, an IAC with the byte after it
RECURSIVE FrameEnd(_, _)
FrameEnd(s, j) ==
    IF j >= Len(s) THEN -1
    ELSE IF s[j + 1] # 255 THEN FrameEnd(s, j + 1)
    ELSE IF j + 1 >= Len(s) THEN -1
    ELSE IF s[j + 2] = 240 THEN j + 1
    ELSE FrameEnd(s, j + 2)

RECURSIVE Tokens(_, _)
Tokens(s, i) ==
    IF i >= Len(s) THEN <<>>
    ELSE IF s[i + 1] # 255 THEN <<Token("data", i, i, s[i + 1], <<>>)>> \o Tokens(s, i + 1)
    ELSE IF i + 1 >= Len(s) THEN <<>>
    ELSE LET c == s[i + 2]
         IN  CASE c = 255 -> <<Token("escape", i, i + 1, 255, <<>>)>> \o Tokens(s, i + 2)
               [] c \in {251, 252, 253, 254} ->
                    IF i + 2 >= Len(s) THEN <<>>
                    ELSE <<Token("negotiation", i, i + 2, s[i + 3], <<c>>)>>
                            \o Tokens(s, i + 3)
               [] c = 250 ->
                    IF i + 2 >= Len(s) \/ FrameEnd(s, i + 3) < 0 THEN <<>>
                    ELSE LET e == FrameEnd(s, i + 3)
                         IN  <<Token("sub", i, e, s[i + 3], SubSeq(s, i + 4, e - 1))>>
                                \o Tokens(s, e + 1)
               [] OTHER -> <<Token("unknown", i, i + 1, c, <<>>)>> \o Tokens(s, i + 2)

\* every 0xFF of a frame's payload bytes is followed by a second 0xFF
RECURSIVE WellEscaped(_)
WellEscaped(raw) ==
    IF raw = <<>> THEN TRUE
    ELSE IF Head(raw) # 255 THEN WellEscaped(Tail(raw))
    ELSE Len(raw) >= 2 /\ raw[2] = 255 /\ WellEscaped(Tail(Tail(raw)))

\* raw with every IAC IAC collapsed to one 0xFF
RECURSIVE Collapse(_)
Collapse(raw) ==
    IF raw = <<>> THEN <<>>
    ELSE IF Len(raw) >= 2 /\ raw[1] = 255 /\ raw[2] = 255
         THEN <<255>> \o Collapse(Tail(Tail(raw)))
         ELSE <<Head(raw)>> \o Collapse(Tail(raw))

OfKind(seq, kind) == SelectSeq(seq, LAMBDA x : x.kind = kind)

(***************************************************************************)
(* Properties of the streaming parser                                      *)
(***************************************************************************)
\* adjacent Data events merged into one
RECURSIVE MergeData(_)
MergeData(evs) ==
    IF Len(evs) < 2 THEN evs
    ELSE IF evs[1].kind = "Data" /\ evs[2].kind = "Data"
         THEN MergeData(<<Event_Data(evs[1].data \o evs[2].data, evs[2].last)>>
                            \o Tail(Tail(evs)))
         ELSE <<evs[1]>> \o MergeData(Tail(evs))

\* a single parse of the whole stream by a fresh parser
WholeParse == parse(Parser_new, input)

\* C1: parser resumability: the events of the parse calls on the parts of a
\* stream, concatenated, are the events of a single parse of the whole stream
\* by a fresh parser, up to merging adjacent Data events; and the parser is
\* left in the same state.
C1_Resumable ==
    /\ ~panicked
    /\ MergeData(events) = MergeData(WholeParse.events)
    /\ state = WholeParse.state

\* a frame parsed by calls that returned after IAC, after IAC SB and between
\* the IAC and the SE
C1_Witness ==
    /\ input = <<255, 250, 1, 255, 240>>
    /\ {"IAC", "SB", "SBDataIAC"} \subseteq held
    /\ events = <<Event_Subnegotiation(<<"Echo">>, <<>>, 4)>>

\* C5: events are delivered in protocol order: an event whose last input byte
\* lies before that of another event comes before it in the event sequence.
C5_ProtocolOrder ==
    \A j, k \in 1..Len(events) :
        events[j].last < events[k].last => j < k

\* a Data run, the command that ends it and the Data after the command
C5_Witness ==
    /\ Len(events) = 3
    /\ events[1].kind = "Data" /\ events[2].kind = "UnknownIAC"
    /\ events[3].kind = "Data"
    /\ "IAC" \in held

\* C6, as stated: a Subnegotiation event is emitted exactly once per complete
\* IAC SB opt ... IAC SE frame, at the SE byte, with the option of the frame
\* and the frame's bytes with every IAC IAC collapsed to one 0xFF as payload;
\* none is emitted for a frame that is not terminated.
C6_AnyFramePayload ==
    LET subs == OfKind(events, "Subnegotiation")
        frames == OfKind(Tokens(input, 0), "sub")
    IN  /\ Len(subs) = Len(frames)
        /\ \A k \in 1..Len(subs) :
              /\ subs[k].last = frames[k].last
              /\ TelnetOption_as_byte(subs[k].opt) = frames[k].byte
              /\ subs[k].data = Collapse(frames[k].raw)

\* C6, amended: a Subnegotiation event is emitted exactly once per complete
\* IAC SB opt ... IAC SE frame, at the SE byte, with the option of the frame;
\* its payload is the frame's bytes with every IAC IAC collapsed to one 0xFF
\* when every IAC of the frame's payload is doubled; none is emitted for a
\* frame that is not terminated.
C6_OneEventPerFrame ==
    LET subs == OfKind(events, "Subnegotiation")
        frames == OfKind(Tokens(input, 0), "sub")
    IN  /\ Len(subs) = Len(frames)
        /\ \A k \in 1..Len(subs) :
              /\ subs[k].last = frames[k].last
              /\ TelnetOption_as_byte(subs[k].opt) = frames[k].byte
              /\ (WellEscaped(frames[k].raw) =>
                    subs[k].data = Collapse(frames[k].raw))

\* a frame of the option 255 with an escaped 0xFF as payload, parsed by
\* calls that returned after the option byte and after an IAC of the payload
C6_Witness ==
    /\ input = <<255, 250, 255, 255, 255, 255, 240>>
    /\ {"SBData", "SBDataIAC"} \subseteq held
    /\ OfKind(events, "Subnegotiation") = <<Event_Subnegotiation(<<"EXOPL">>, <<255>>, 6)>>

\* the stream offset of the j-th byte of the payload of a Data event
DataOffset(ev, j) == ev.last - Len(ev.data) + j

\* C7: a Data payload never holds a raw IAC: its bytes are user data bytes of
\* the stream, a 0xFF only as its first byte and only as the second byte of an
\* IAC IAC pair; no byte of a negotiation, a sub-negotiation or an unknown
\* command is in a Data payload.
C7_DataIsUserData ==
    LET toks == Tokens(input, 0)
    IN  \A k \in 1..Len(events) :
            events[k].kind = "Data" =>
                \A j \in 1..Len(events[k].data) :
                    LET p == DataOffset(events[k], j)
                        b == events[k].data[j]
                    IN  /\ p >= 0 /\ p < Len(input) /\ input[p + 1] = b
                        /\ \E t \in 1..Len(toks) :
                              /\ toks[t].last = p
                              /\ toks[t].kind \in {"data", "escape"}
                              /\ (b = 255 => toks[t].kind = "escape" /\ j = 1)

\* Data that starts with an unescaped 0xFF, after a negotiation
C7_Witness ==
    /\ input = <<255, 251, 255, 255, 255>>
    /\ events = <<Event_Negotiation("Will", <<"EXOPL">>, 2), Event_Data(<<255>>, 4)>>

\* C8: no zero-length Data event: every Data event returned by Parser::parse
\* and every Data event queued by Telnet::process has a payload of at least
\* one byte, for every stream and every chunking of it into buffers.
C8_NoEmptyData ==
    /\ \A k \in 1..Len(events) :
          events[k].kind = "Data" => Len(events[k].data) >= 1
    /\ \A k \in 1..Len(delivered) :
          delivered[k].kind = "Data" => Len(delivered[k].data) >= 1
    /\ \A k \in 1..Len(event_queue) :
          event_queue[k].kind = "Data" => Len(event_queue[k].data) >= 1

\* buffers that start and end exactly at the boundaries of a command, with
\* Data on both sides of it
C8_Witness ==
    /\ input = <<1, 255, 240, 1>>
    /\ held = {"NormalData"}
    /\ Len(OfKind(events, "Data")) = 2
    /\ Len(OfKind(delivered \o event_queue, "Data")) = 2

(***************************************************************************)
(* Properties of the option conversions                                    *)
(***************************************************************************)
\* the bytes the telnet_options! table names
Registered == (0..39) \cup {70, 85, 86, 93, 255}

\* C11: option byte bijectivity: for every byte b in 0..=255,
\* TelnetOption::parse(b).as_byte() is b.
C11_ParseAsByte ==
    (o_pc = "done" /\ o_call.fn = "parse_as_byte") => o_byte = o_call.byte

\* the byte after the dense part of the table, parsed to MSSP and back
C11_Witness ==
    /\ o_pc = "done" /\ o_call.fn = "parse_as_byte"
    /\ o_call.byte = 70 /\ o_opt = <<"MSSP">> /\ o_byte = 70

\* C12, as stated: for every TelnetOption value opt, every UnknownOption(b)
\* for b in 0..=255 included, TelnetOption::parse(opt.as_byte()) is opt.
C12_AnyOptionRoundTrip ==
    (o_pc = "done" /\ o_call.fn = "as_byte_parse") => o_opt = o_call.opt

\* C12, amended: TelnetOption::parse(opt.as_byte()) is opt for every named
\* option and for every UnknownOption(b) whose b the table does not name;
\* for UnknownOption(b) with a b the table names it is the named option of b.
C12_CanonicalRoundTrip ==
    (o_pc = "done" /\ o_call.fn = "as_byte_parse") =>
        IF o_call.opt[1] = "UnknownOption" /\ o_call.opt[2] \in Registered
        THEN /\ o_opt[1] # "UnknownOption"
             /\ o_byte = o_call.opt[2]
             /\ \E k \in 1..Len(OptionTable) : OptionTable[k] = <<o_byte, o_opt[1]>>
        ELSE o_opt = o_call.opt

\* EXOPL, the option of byte 255, converted and parsed back
C12_Witness ==
    /\ o_pc = "done" /\ o_call.fn = "as_byte_parse"
    /\ o_call.opt = <<"EXOPL">> /\ o_byte = 255 /\ o_opt = <<"EXOPL">>

(***************************************************************************)
(* Properties of the Q method tables                                       *)
(***************************************************************************)
\* the state of the side the last call is about, before and after the call
QPre == get_state(q_last.pre_map, q_last.is_us, q_last.opt)
QPost == get_state(q_map, q_last.is_us, q_last.opt)

\* the actions the last call sent and the kinds of the events it pushed
QSentActions == [k \in 1..Len(q_last.sent) |-> q_last.sent[k].action]
QEventKinds == [k \in 1..Len(q_last.queue) |-> q_last.queue[k].kind]

\* what the last call sent and pushed names the option of the call
QAboutOption ==
    /\ \A k \in 1..Len(q_last.sent) : q_last.sent[k].opt = q_last.opt
    /\ \A k \in 1..Len(q_last.queue) :
          q_last.queue[k].kind # "Error" => q_last.queue[k].opt = q_last.opt

\* the other side of the option and the other options keep their state
QOthersKept ==
    \A o \in QOptions, side \in BOOLEAN :
        (o # q_last.opt \/ side # q_last.is_us) =>
            get_state(q_map, side, o) = get_state(q_last.pre_map, side, o)

\* a row of a transition table
Row(next, sent, emitted) == [next |-> next, sent |-> sent, emitted |-> emitted]

QFollows(row) ==
    /\ QPost = row.next
    /\ QSentActions = row.sent
    /\ QEventKinds = row.emitted
    /\ QAboutOption
    /\ QOthersKept

WillTable(from, remote_allowed) ==
    CASE from = "No" /\ remote_allowed -> Row("Yes", <<"Do">>, <<"RemoteEnabled">>)
      [] from = "No" /\ ~remote_allowed -> Row("No", <<"Dont">>, <<>>)
      [] from = "Yes" -> Row("Yes", <<>>, <<>>)
      [] from = "WantNoEmpty" -> Row("No", <<>>, <<"Error", "RemoteDisabled">>)
      [] from = "WantNoOpposite" -> Row("Yes", <<>>, <<"Error", "RemoteEnabled">>)
      [] from = "WantYesEmpty" -> Row("Yes", <<>>, <<"RemoteEnabled">>)
      [] from = "WantYesOpposite" -> Row("WantNoEmpty", <<"Dont">>, <<>>)

\* C13: receive_will (him side) follows the table in each of the six states:
\* No with remote_allowed -> Yes, sends DO, emits RemoteEnabled; No without
\* -> No, sends DONT; Yes -> nothing; WantNoEmpty -> No, Error then
\* RemoteDisabled; WantNoOpposite -> Yes, Error then RemoteEnabled;
\* WantYesEmpty -> Yes, RemoteEnabled, nothing sent, whatever remote_allowed
\* is; WantYesOpposite -> WantNoEmpty, sends DONT.
C13_ReceiveWillTable ==
    q_last.op = "receive_will" => QFollows(WillTable(QPre, q_last.flag))

\* the WILL that answers a DO of ours, the option not allowed by the policy
C13_Witness ==
    /\ q_last.op = "receive_will" /\ ~q_last.flag
    /\ QPre = "WantYesEmpty" /\ QPost = "Yes"
    /\ q_last.sent = <<>>
    /\ q_last.queue = <<TelnetEvent_RemoteEnabled(q_last.opt)>>

WontTable(from) ==
    CASE from = "No" -> Row("No", <<>>, <<>>)
      [] from = "Yes" -> Row("No", <<"Dont">>, <<"RemoteDisabled">>)
      [] from = "WantNoEmpty" -> Row("No", <<>>, <<"RemoteDisabled">>)
      [] from = "WantNoOpposite" -> Row("WantYesEmpty", <<"Do">>, <<>>)
      [] from \in {"WantYesEmpty", "WantYesOpposite"} -> Row("No", <<>>, <<"RemoteDisabled">>)

\* C14: receive_wont (him side) follows the table in every state: No ->
\* unchanged, nothing sent or emitted, also for an option never referenced;
\* Yes -> No, sends DONT, emits RemoteDisabled; WantNoEmpty -> No,
\* RemoteDisabled; WantNoOpposite -> WantYesEmpty, sends DO; WantYesEmpty and
\* WantYesOpposite -> No, RemoteDisabled.
C14_ReceiveWontTable ==
    q_last.op = "receive_wont" =>
        /\ QFollows(WontTable(QPre))
        /\ (QPre = "No" => q_map = q_last.pre_map)

\* a WONT for an option the map has no entry for, another option negotiated
C14_Witness ==
    /\ q_last.op = "receive_wont"
    /\ q_last.opt = UnknownOption(200)
    /\ DOMAIN q_last.pre_map = {<<"Echo">>}
    /\ q_map = q_last.pre_map /\ q_last.sent = <<>> /\ q_last.queue = <<>>

AskEnableTable(from) ==
    CASE from = "No" -> Row("WantYesEmpty", <<"Do">>, <<>>)
      [] from = "WantNoEmpty" -> Row("WantNoOpposite", <<>>, <<>>)
      [] from = "WantYesOpposite" -> Row("WantYesEmpty", <<>>, <<>>)
      [] from \in {"Yes", "WantNoOpposite", "WantYesEmpty"} -> Row(from, <<>>, <<"Error">>)

\* C15: ask_to_enable (him side) follows the table: No -> WantYesEmpty and
\* sends DO; WantNoEmpty -> WantNoOpposite, nothing sent; WantYesOpposite ->
\* WantYesEmpty, nothing sent; in Yes, WantNoOpposite and WantYesEmpty exactly
\* one Error event, nothing sent, the state unchanged.
C15_AskToEnableTable ==
    q_last.op = "ask_to_enable" => QFollows(AskEnableTable(QPre))

\* an enable request queued behind an unanswered DONT
C15_Witness ==
    /\ q_last.op = "ask_to_enable"
    /\ QPre = "WantNoEmpty" /\ QPost = "WantNoOpposite"
    /\ q_last.sent = <<>> /\ q_last.queue = <<>>

AskDisableTable(from) ==
    CASE from = "Yes" -> Row("WantNoEmpty", <<"Dont">>, <<>>)
      [] from = "WantYesEmpty" -> Row("WantYesOpposite", <<>>, <<>>)
      [] from = "WantNoOpposite" -> Row("WantNoEmpty", <<>>, <<>>)
      [] from \in {"No", "WantNoEmpty", "WantYesOpposite"} -> Row(from, <<>>, <<"Error">>)

\* C16: ask_to_disable (him side) mirrors ask_to_enable: Yes -> WantNoEmpty
\* and sends DONT; WantYesEmpty -> WantYesOpposite, nothing sent;
\* WantNoOpposite -> WantNoEmpty, nothing sent; in No, WantNoEmpty and
\* WantYesOpposite exactly one Error event, nothing sent, the state unchanged.
C16_AskToDisableTable ==
    q_last.op = "ask_to_disable" => QFollows(AskDisableTable(QPre))

\* a disable request queued behind an unanswered DO
C16_Witness ==
    /\ q_last.op = "ask_to_disable"
    /\ QPre = "WantYesEmpty" /\ QPost = "WantYesOpposite"
    /\ q_last.sent = <<>> /\ q_last.queue = <<>>

MirrorAction(action) ==
    CASE action = "Do" -> "Will"
      [] action = "Dont" -> "Wont"
      [] OTHER -> "none"

MirrorKind(kind) ==
    CASE kind = "RemoteEnabled" -> "LocalShouldEnable"
      [] kind = "RemoteDisabled" -> "LocalShouldDisable"
      [] kind = "Error" -> "Error"
      [] OTHER -> "none"

\* the him side entry point run on a machine whose him side is in the state
\* the us side was in before the last call
HimCounterpart ==
    LET m == [map |-> (q_last.opt :> [us |-> "No", him |-> QPre]),
              queue |-> <<>>, sent |-> <<>>]
    IN  CASE q_last.op = "receive_do" -> receive_will(m, q_last.opt, q_last.flag)
          [] q_last.op = "receive_dont" -> receive_wont(m, q_last.opt)
          [] q_last.op = "inform_enabled" -> ask_to_enable(m, q_last.opt)
          [] q_last.op = "inform_disable" -> ask_to_disable(m, q_last.opt)

\* C17: the us side mirrors the him side: in every state and with every
\* policy flag receive_do / receive_dont / inform_enabled / inform_disable
\* give the next state of receive_will / receive_wont / ask_to_enable /
\* ask_to_disable, send WILL for DO and WONT for DONT, and emit
\* LocalShouldEnable for RemoteEnabled, LocalShouldDisable for RemoteDisabled
\* and Error where the him side emits Error.
C17_UsMirrorsHim ==
    (q_last.op # "none" /\ q_last.is_us) =>
        LET r == HimCounterpart
        IN  /\ QPost = get_state(r.map, FALSE, q_last.opt)
            /\ QSentActions = [k \in 1..Len(r.sent) |-> MirrorAction(r.sent[k].action)]
            /\ QEventKinds = [k \in 1..Len(r.queue) |-> MirrorKind(r.queue[k].kind)]
            /\ QAboutOption
            /\ QOthersKept

\* a DO that arrives while a WONT is unanswered and an enable is queued
C17_Witness ==
    /\ q_last.op = "receive_do"
    /\ QPre = "WantNoOpposite" /\ QPost = "Yes"
    /\ QEventKinds = <<"Error", "LocalShouldEnable">>

Stable == {"No", "Yes"}
LocalRequests == {"ask_to_enable", "ask_to_disable", "inform_enabled", "inform_disable"}
Receives == {"receive_will", "receive_wont", "receive_do", "receive_dont"}

\* C19: at most one outbound request is in flight for an option and side: a
\* local request sends a negotiation only from No or Yes and sends nothing
\* from a Want state; a receive handler that starts in a Want state sends only
\* from WantNoOpposite / WantYesOpposite, one negotiation, in the step that
\* takes the answer to the request before, and leaves the side waiting for
\* the answer to the new one.
C19_OneRequestInFlight ==
    /\ Len(q_last.sent) <= 1
    /\ (q_last.op \in LocalRequests /\ q_last.sent # <<>>) =>
          (QPre \in Stable /\ QPost \in {"WantYesEmpty", "WantNoEmpty"})
    /\ (q_last.op \in LocalRequests /\ QPre \notin Stable) => q_last.sent = <<>>
    /\ (q_last.op \in Receives /\ QPre \notin Stable /\ q_last.sent # <<>>) =>
          (QPre \in {"WantNoOpposite", "WantYesOpposite"}
              /\ QPost \in {"WantYesEmpty", "WantNoEmpty"})

\* the DONT that answers our WONT releases the queued WILL
C19_Witness ==
    /\ q_last.op = "receive_dont"
    /\ QPre = "WantNoOpposite" /\ QPost = "WantYesEmpty"
    /\ q_last.sent = <<[action |-> "Will", opt |-> q_last.opt]>>

(***************************************************************************)
(* Properties of two peers that both run the Q method                      *)
(***************************************************************************)
XState(p, is_us) == get_state(x_sm[p], is_us, XOption)

\* nothing is in flight and every side of both peers is in No or Yes
Quiescent ==
    /\ \A p \in Peers : x_chan[p] = <<>>
    /\ \A p \in Peers, is_us \in BOOLEAN : XState(p, is_us) \in Stable

\* C18, as stated: whatever the local requests and the answers of the peer,
\* a side is back in Yes or No within 4 transitions of leaving it: no side
\* makes a fifth transition away from Yes and No, and none is still
\* negotiating after its fourth.
C18_FourTransitions ==
    \A p \in Peers, is_us \in BOOLEAN :
        /\ x_hops[p][is_us] <= 4
        /\ XState(p, is_us) \notin Stable => x_hops[p][is_us] < 4

\* no side makes more than 2 transitions on received negotiations without
\* passing through No or Yes or a request of its user
TwoReceivedTransitions ==
    \A p \in Peers, is_us \in BOOLEAN : x_recv[p][is_us] <= 2

\* C18, amended: Q method loop freedom: whatever the local requests and the
\* answers of the peer, a side makes at most 2 transitions on received
\* negotiations between two requests of its user before it is in Yes or No,
\* and once the local requests stop both peers come to rest in Yes or No
\* with nothing in flight: no received negotiation makes a side send another
\* one forever.
C18_LoopFree == []TwoReceivedTransitions /\ <>[]Quiescent

\* a side that went No, WantYesEmpty, WantYesOpposite, WantNoEmpty, No: two
\* requests of its user, then two received negotiations
C18_Witness ==
    /\ Quiescent
    /\ XState("A", FALSE) = "No"
    /\ x_hops["A"][FALSE] = 4 /\ x_recv["A"][FALSE] = 2

(***************************************************************************)
(* Properties of the read facade                                           *)
(***************************************************************************)
\* the events process queues when every byte of the wire arrives in one
\* transport read, into a buffer that holds them all
OneRead == process(<<>>, wire, IF wire = <<>> THEN 1 ELSE Len(wire)).queue

\* C20: the read facade holds the parser state across transport reads: the
\* events of a negotiation, a sub-negotiation frame or an IAC IAC escape whose
\* bytes arrive split across transport reads are the events produced when
\* the same bytes arrive in one read (runs of Data that the reads cut in two
\* are compared merged).
C20_StateHeldAcrossReads ==
    t_pc \in {"idle", "read"} =>
        MergeData(delivered \o event_queue) = MergeData(OneRead)

\* the user data of the complete tokens of s: its plain bytes, and one 0xFF
\* for every IAC IAC pair outside a sub-negotiation frame
UserData(s) ==
    LET toks == SelectSeq(Tokens(s, 0), LAMBDA t : t.kind \in {"data", "escape"})
    IN  [k \in 1..Len(toks) |-> toks[k].byte]

\* C21: the Data payloads delivered are the un-escaped user data of the input
\* in order: when the transport returns the wire in one read, the payloads of
\* the Data events up to and including any event concatenate to the user data
\* of the input up to the last byte of that event, so the 0xFF of an IAC IAC
\* pair is delivered before the event of a command that follows the pair, and
\* the payload of a Subnegotiation event holds the bytes of its frame only.
C21_EscapedIACInOrder ==
    \A k \in 1..Len(OneRead) :
        /\ DataPayload(SubSeq(OneRead, 1, k))
              = UserData(SubSeq(wire, 1, OneRead[k].last + 1))
        /\ OneRead[k].kind = "Subnegotiation" =>
              \E t \in 1..Len(Tokens(wire, 0)) :
                  /\ Tokens(wire, 0)[t].kind = "sub"
                  /\ Tokens(wire, 0)[t].last = OneRead[k].last
                  /\ Len(OneRead[k].data) <= Len(Tokens(wire, 0)[t].raw)

(***************************************************************************)
(* Properties of the three read calls                                      *)
(***************************************************************************)
\* C22: the event queue is first in, first out and hands out one event per
\* call: a read, read_timeout or read_nonblocking call that finds an event
\* queued returns the oldest one, without a transport read and without a
\* stream-setting call; the events delivered and the events still queued
\* are, in order, the events process has pushed: none lost, none twice.
C22_QueueFifo ==
    /\ [](delivered \o event_queue = t_pushed)
    /\ [][/\ Len(delivered') <= Len(delivered) + 1
          /\ (t_pc = "idle" /\ event_queue # <<>>) =>
                /\ t_last'.ret = Ok(Head(event_queue))
                /\ event_queue' = Tail(event_queue)
                /\ delivered' = Append(delivered, Head(event_queue))
                /\ ~t_last'.transport /\ t_last'.calls = <<>>
                /\ UNCHANGED <<wire, t_buffer, process_buffer, t_pushed>>]_vars

\* three events pushed by one transport read: the first returned by the call
\* that read, the second by a read_timeout call that found two events queued
C22_Witness ==
    /\ wire = <<1, 255, 1, 1>>
    /\ t_last.fn = "read_timeout" /\ ~t_last.transport
    /\ t_last.ret = Ok(Event_UnknownIAC(1, 2))
    /\ Len(delivered) = 2 /\ Len(event_queue) = 1

\* the stream was called by read_timeout or read_nonblocking and one of its
\* calls failed
Failed(l) ==
    /\ l.fn \in {"read_timeout", "read_nonblocking"}
    /\ l.io # NoIo
    /\ ~l.io.read.ok

\* C23: with an empty queue, read_timeout returns Ok(TimedOut) when the
\* transport read fails with WouldBlock or TimedOut, read_nonblocking
\* returns Ok(NoData) when it fails with WouldBlock; any other transport
\* error and any stream-setting error is returned as Err. The failed call
\* leaves the event queue, the read buffer and the process buffer as they
\* were, so the next successful read delivers what it would have delivered
\* without the failed call.
C23_FailedReadKeepsState ==
    /\ [](Failed(t_last) =>
            LET io == t_last.io
                e == io.read.err
            IN  IF io.set_nonblocking # "Ok"
                THEN t_last.ret = Err(io.set_nonblocking) /\ ~t_last.transport
                ELSE IF io.set_read_timeout # "Ok"
                THEN t_last.ret = Err(io.set_read_timeout) /\ ~t_last.transport
                ELSE IF t_last.fn = "read_timeout" /\ e \in {"WouldBlock", "TimedOut"}
                THEN t_last.ret = Ok(Event_TimedOut)
                ELSE IF t_last.fn = "read_nonblocking" /\ e = "WouldBlock"
                THEN t_last.ret = Ok(Event_NoData)
                ELSE t_last.ret = Err(e))
    /\ [][Failed(t_last') =>
            UNCHANGED <<event_queue, t_buffer, process_buffer, t_pushed, delivered,
                        wire, t_cap, t_pc>>]_vars

\* a read_nonblocking call that timed out while an escaped 0xFF was held in
\* the process buffer
C23_Witness ==
    /\ t_last.fn = "read_nonblocking"
    /\ t_last.io.read.err = "TimedOut" /\ t_last.ret = Err("TimedOut")
    /\ process_buffer = <<255>> /\ t_buffer = <<255, 255>>
    /\ event_queue = <<>>

\* C24: InternalQueueErr is never returned: for every sequence of transport
\* read results, reads of 0 bytes and reads that end inside a command
\* included, no call of read, read_timeout or read_nonblocking returns
\* Event::Error(InternalQueueErr).
C24_NoInternalQueueErr ==
    t_last.ret.event.kind # "InternalQueueErr"

(***************************************************************************)
(* Properties of the write calls                                           *)
(***************************************************************************)
\* the call has returned
Returned(fn) == w_pc = "done" /\ w_call.fn = fn

\* a write_all call of the call has failed
WriteFailed == w_stream.fail.at \in 1..Len(w_stream.calls)

\* C25: Telnet::write(data) writes data with every 0xFF doubled, the bytes of
\* format::data(data), and returns Ok(length of data), the escapes not
\* counted; when a write to the stream fails it returns that I/O error.
C25_WriteDoublesIAC ==
    Returned("write") =>
        IF WriteFailed
        THEN w_ret = Err_of(<<w_stream.fail.err>>)
        ELSE /\ w_stream.out = Escape(w_call.src)
             /\ w_stream.out = to_owned(data(w_call.src))
             /\ w_ret = Ok_usize(Len(w_call.src))

\* data with two 0xFF, written by five write_all calls
C25_Witness ==
    /\ Returned("write") /\ ~WriteFailed
    /\ w_call.src = <<1, 255, 255, 240>>
    /\ w_stream.out = <<1, 255, 255, 255, 255, 240>>
    /\ Len(w_stream.calls) = 5
    /\ w_ret = Ok_usize(4)

\* C26: Telnet::subnegotiate(opt, params) writes IAC SB, the option byte,
\* params with every 0xFF doubled, and IAC SE, the bytes of
\* format::sub_negotiation(opt, params), so that a parser of the peer yields
\* Subnegotiation(opt, params).
C26_SubnegotiateEscapes ==
    (Returned("subnegotiate") /\ w_ret.ok) =>
        /\ w_stream.out = sub_negotiation(w_call.opt, w_call.src)
        /\ parse(Parser_new, w_stream.out).events
              = <<Event_Subnegotiation(w_call.opt, w_call.src, Len(w_stream.out) - 1)>>

\* the write_all calls of subnegotiate: start, data, end
Phases ==
    <<[type |-> "Start",
       buf |-> <<BYTE_IAC, BYTE_SB, ExpectedOptByte(w_call.opt)>>],
      [type |-> "Data", buf |-> w_call.src],
      [type |-> "End", buf |-> <<BYTE_IAC, BYTE_SE>>]>>

\* C27: subnegotiate makes three writes, start, data and end, in this
\* order; when one fails it returns SubnegotiationErr naming that phase and
\* makes no later write. negotiate writes the three bytes IAC, action,
\* option in one write and returns NegotiationErr when it fails. Both return
\* Ok(()) only when every write succeeded.
C27_WritePhases ==
    /\ Returned("subnegotiate") =>
          LET n == Len(w_stream.calls)
          IN  /\ n \in 1..3
              /\ \A k \in 1..n : w_stream.calls[k] = Phases[k].buf
              /\ IF WriteFailed
                 THEN /\ n = w_stream.fail.at
                      /\ w_ret = Err_of(SubnegotiationErr(Phases[n].type))
                 ELSE n = 3 /\ w_ret = Ok_usize(0)
    /\ Returned("negotiate") =>
          /\ w_stream.calls = <<<<BYTE_IAC, ExpectedActionByte(w_call.action),
                                  ExpectedOptByte(w_call.opt)>>>>
          /\ w_ret = IF WriteFailed THEN Err_of(NegotiationErr) ELSE Ok_usize(0)

\* the last write of a subnegotiate call fails
C27_Witness ==
    /\ Returned("subnegotiate")
    /\ w_call.src = <<1, 255>>
    /\ w_stream.fail.at = 3
    /\ Len(w_stream.calls) = 3
    /\ w_ret = Err_of(SubnegotiationErr("End"))

(***************************************************************************)
(* Properties of the parser on commands it does not know                   *)
(***************************************************************************)
\* the payload of a frame when the byte after an IAC is kept, whatever it is
RECURSIVE Accumulate(_)
Accumulate(raw) ==
    IF raw = <<>> THEN <<>>
    ELSE IF raw[1] = 255 /\ Len(raw) >= 2
         THEN <<raw[2]>> \o Accumulate(Tail(Tail(raw)))
         ELSE <<Head(raw)>> \o Accumulate(Tail(raw))

\* the stream offsets of the bytes b that follow an IAC inside the frames of
\* the stream and are neither SE nor IAC
RECURSIVE UnexpectedIn(_, _, _)
UnexpectedIn(raw, k, base) ==
    IF k >= Len(raw) THEN {}
    ELSE IF raw[k] # 255 THEN UnexpectedIn(raw, k + 1, base)
    ELSE (IF raw[k + 1] # 255 THEN {base + k} ELSE {})
            \cup UnexpectedIn(raw, k + 2, base)

\* C28: inside a sub-negotiation, an IAC followed by a byte b that is neither
\* SE nor IAC yields Error(UnexpectedByte(b)); the IAC is discarded and b is
\* accumulated into the payload: the Subnegotiation event of the frame holds
\* the frame's bytes with every IAC dropped and the byte after it kept.
C28_UnexpectedByteKept ==
    LET subs == OfKind(events, "Subnegotiation")
        frames == OfKind(Tokens(input, 0), "sub")
    IN  /\ Len(subs) = Len(frames)
        /\ \A k \in 1..Len(subs) :
              /\ subs[k].last = frames[k].last
              /\ subs[k].data = Accumulate(frames[k].raw)
              /\ \A p \in UnexpectedIn(frames[k].raw, 1, frames[k].first + 3) :
                    \E e \in 1..Len(events) :
                        events[e] = Event_Error(input[p + 1], p)

\* the events of evs cut from bytes after offset p
After(evs, p) == SelectSeq(evs, LAMBDA e : e.last > p)

\* the bytes of the stream after offset p
Suffix(p) == SubSeq(input, p + 2, Len(input))

\* the first clauses for Parser::parse: one UnknownIAC(xx) per IAC xx, at
\* xx; the bytes after xx parsed as a fresh parser parses them from the
\* start of a stream (same events up to merging adjacent Data, same state
\* left); no Data event holds the IAC or xx
UnknownIACInParser ==
    LET toks == OfKind(Tokens(input, 0), "unknown")
        unknown == OfKind(events, "UnknownIAC")
    IN  /\ ~panicked
        /\ Len(unknown) = Len(toks)
        /\ \A k \in 1..Len(toks) :
              LET t == toks[k]
                  fresh == parse(Parser_new, Suffix(t.last))
              IN  /\ unknown[k] = Event_UnknownIAC(t.byte, t.last)
                  /\ MergeData(After(events, t.last))
                        = MergeData(RebaseAll(fresh.events, t.last + 1))
                  /\ state = fresh.state
                  /\ \A e \in 1..Len(events) :
                        events[e].kind = "Data" =>
                            \A j \in 1..Len(events[e].data) :
                                DataOffset(events[e], j) \notin {t.first, t.last}

\* the same for Telnet::process, on the events read has delivered and those
\* still queued: one UnknownIAC(xx) per IAC xx of the wire, at xx, and after
\* it the events of the bytes after xx read from the start of a stream
UnknownIACInFacade ==
    LET toks == OfKind(Tokens(wire, 0), "unknown")
        queued == delivered \o event_queue
        unknown == OfKind(queued, "UnknownIAC")
    IN  /\ Len(unknown) = Len(toks)
        /\ \A k \in 1..Len(toks) :
              LET t == toks[k]
                  rest == SubSeq(wire, t.last + 2, Len(wire))
                  fresh == process(<<>>, rest, Len(rest) + 1).queue
              IN  /\ unknown[k] = Event_UnknownIAC(t.byte, t.last)
                  /\ MergeData(After(queued, t.last))
                        = MergeData(RebaseAll(fresh, t.last + 1))

\* C29: outside a sub-negotiation, IAC xx with xx none of WILL, WONT, DO,
\* DONT, SB, IAC yields exactly one UnknownIAC(xx), consumes these two bytes
\* and leaves the parser in normal data: the bytes after xx are parsed as at
\* the start of a fresh stream, and no Data event holds the IAC or xx; in
\* Parser::parse and in Telnet::process.
C29_UnknownIACConsumesTwo ==
    /\ UnknownIACInParser
    /\ t_pc \in {"idle", "read"} => UnknownIACInFacade

\* the calls of ZlibStream that go through to the underlying stream
PassThrough == {"write", "flush", "set_nonblocking", "set_read_timeout"}

\* C30: begin_zlib leaves a decoding ZlibStream as it is and end_zlib a plain
\* one; begin_zlib leaves the stream decoding and end_zlib plain, so
\* begin_zlib followed by end_zlib returns to plain; neither makes a call on
\* the underlying stream; in both modes write, flush, set_nonblocking and
\* set_read_timeout keep the mode and make the same call, with the same
\* argument, on the underlying stream and nothing else.
C30_ZlibToggle ==
    [][/\ z_last'.op = "begin_zlib" =>
            /\ z_stream'.tag = "Encoded"
            /\ z_stream'.stream = z_stream.stream
            /\ z_stream.tag = "Encoded" => z_stream' = z_stream
       /\ z_last'.op = "end_zlib" =>
            /\ z_stream'.tag = "Plain"
            /\ z_stream'.stream = z_stream.stream
            /\ z_stream.tag = "Plain" => z_stream' = z_stream
            /\ z_last.op = "begin_zlib" => z_stream' = ZlibStreamSwitch_Plain(z_stream.stream)
       /\ z_last'.op \in PassThrough =>
            /\ z_stream'.tag = z_stream.tag
            /\ z_stream'.stream =
                  Append(z_stream.stream,
                         StreamCall(z_last'.op, z_last'.buf, z_last'.flag))
      ]_vars

\* begin_zlib has been called on a ZlibStream already decoding, after a write
\* of 0xFF
C30_Witness ==
    /\ z_last.op = "begin_zlib"
    /\ z_last.tag = "Encoded"
    /\ z_stream = ZlibStreamSwitch_Encoded(<<StreamCall("write", <<BYTE_IAC>>, "-")>>)

(***************************************************************************)
(* Properties of TelnetConnection::process                                 *)
(***************************************************************************)
\* the last buffer processed was data bytes followed by IAC, command, the
\* byte of the configured option
Received(command) ==
    /\ c_pc = "ready"
    /\ Len(c_last.buffer) >= 3
    /\ SubSeq(c_last.buffer, Len(c_last.buffer) - 2, Len(c_last.buffer))
          = <<BYTE_IAC, command, TelnetOption_as_byte(COption)>>
    /\ \A k \in 1..(Len(c_last.buffer) - 3) : c_last.buffer[k] = 1

Pushed(event) == \E k \in 1..Len(c_last.queue) : c_last.queue[k] = event

\* C31: when process receives IAC DO opt while the us side of opt is No, it
\* replies WILL and pushes LocalShouldEnable exactly when the local_allowed
\* policy of opt is true, and replies WONT otherwise, whatever remote_allowed
\* is; when it receives IAC WILL opt while the him side is No, it replies DO
\* and pushes RemoteEnabled exactly when remote_allowed is true, and replies
\* DONT otherwise, whatever local_allowed is.
C31_ReplyFollowsOwnPolicy ==
    /\ (Received(BYTE_DO) /\ get_state(c_last.pre_map, TRUE, COption) = "No") =>
          IF c_configs[COption].local_allowed
          THEN /\ c_last.sent = <<[action |-> "Will", opt |-> COption]>>
               /\ Pushed(TelnetEvent_LocalShouldEnable(COption))
          ELSE /\ c_last.sent = <<[action |-> "Wont", opt |-> COption]>>
               /\ ~Pushed(TelnetEvent_LocalShouldEnable(COption))
    /\ (Received(BYTE_WILL) /\ get_state(c_last.pre_map, FALSE, COption) = "No") =>
          IF c_configs[COption].remote_allowed
          THEN /\ c_last.sent = <<[action |-> "Do", opt |-> COption]>>
               /\ Pushed(TelnetEvent_RemoteEnabled(COption))
          ELSE /\ c_last.sent = <<[action |-> "Dont", opt |-> COption]>>
               /\ ~Pushed(TelnetEvent_RemoteEnabled(COption))

(***************************************************************************)
(* The parser inside a malformed sub-negotiation                           *)
(***************************************************************************)
\* the payload the parser holds after the bytes raw of a frame: IAC IAC is
\* one 0xFF, an IAC with any other byte after it is dropped, as is an IAC
\* still pending
RECURSIVE Kept(_)
Kept(raw) ==
    IF raw = <<>> THEN <<>>
    ELSE IF raw[1] # 255 THEN <<raw[1]>> \o Kept(Tail(raw))
    ELSE IF Len(raw) = 1 THEN <<>>
    ELSE IF raw[2] = 255 THEN <<255>> \o Kept(Tail(Tail(raw)))
    ELSE Kept(Tail(Tail(raw)))

\* whether an IAC is pending after the bytes raw of a frame
RECURSIVE PendingIAC(_)
PendingIAC(raw) ==
    IF raw = <<>> THEN FALSE
    ELSE IF raw[1] # 255 THEN PendingIAC(Tail(raw))
    ELSE IF Len(raw) = 1 THEN TRUE
    ELSE PendingIAC(Tail(Tail(raw)))

\* the frame the stream ends in, if any: IAC SB opt and the bytes after it
OpenFrame ==
    LET toks == Tokens(input, 0)
        r == IF toks = <<>> THEN 0 ELSE toks[Len(toks)].last + 1
    IN  IF Len(input) >= r + 3 /\ input[r + 1] = 255 /\ input[r + 2] = 250
        THEN <<Token("open", r, Len(input) - 1, input[r + 3],
                     SubSeq(input, r + 4, Len(input)))>>
        ELSE <<>>

\* the frames of the stream, the last one possibly open
Frames == OfKind(Tokens(input, 0), "sub") \o OpenFrame

\* C32: the parser never aborts on a malformed sub-negotiation. Every Error
\* event is cut from a byte that follows an IAC inside a frame; right after
\* that byte the parser is in SBData with the option of the frame, the
\* payload accumulated before the IAC and the pending-IAC flag cleared; no
\* Data event is cut from a byte of the frame; the frame ends at its IAC SE,
\* where its Subnegotiation event is emitted with the option of the frame and
\* the payload accumulated before and after the error; while the frame is
\* open the parser stays in SBData with that option and payload.
C32_FrameSurvivesError ==
    /\ ~panicked
    /\ \A e \in 1..Len(events) :
          events[e].kind = "Error" =>
              \E f \in 1..Len(Frames) :
                  LET fr == Frames[f]
                      q == events[e].last
                  IN  /\ q \in UnexpectedIn(fr.raw, 1, fr.first + 3)
                      /\ events[e].byte = input[q + 1]
                      /\ Len(input) = q + 1 =>
                            state = SBData(TelnetOption_parse(fr.byte),
                                           Kept(SubSeq(input, fr.first + 4, q - 1)),
                                           FALSE)
                      /\ \A d \in 1..Len(events) :
                            events[d].kind = "Data" =>
                                ~(fr.first <= events[d].last /\ events[d].last <= fr.last)
                      /\ fr.kind = "sub" =>
                            \E k \in 1..Len(events) :
                                /\ k > e
                                /\ events[k] = Event_Subnegotiation(
                                                   TelnetOption_parse(fr.byte),
                                                   Kept(fr.raw), fr.last)
                                /\ \A j \in (e + 1)..(k - 1) : events[j].kind = "Error"
                      /\ fr.kind = "open" =>
                            /\ state = SBData(TelnetOption_parse(fr.byte), Kept(fr.raw),
                                              PendingIAC(fr.raw))
                            /\ \A j \in (e + 1)..Len(events) : events[j].kind = "Error"

\* the frame IAC SB 0xF0 IAC SB IAC SE has been parsed: the error at the
\* second SB, the Subnegotiation at the SE
C32_Witness ==
    /\ input = <<255, 250, 240, 255, 250, 255, 240>>
    /\ events = <<Event_Error(250, 4),
                  Event_Subnegotiation(TelnetOption_parse(240), <<>>, 6)>>
    /\ state = NormalData(0)

(***************************************************************************)
(* The entry assertion of Parser::parse                                    *)
(***************************************************************************)
\* C33: the entry assertion of Parser::parse holds at every call, for every
\* sequence of buffers, empty ones included: no call has panicked, and the
\* state stored when parse returns is NormalData(0) or one of IAC, SB, SBData
\* and Negotiation, none of which holds an index into the buffer.
C33_EntryAssertion ==
    /\ ~panicked
    /\ state.tag \in {"NormalData", "IAC", "SB", "SBData", "Negotiation"}
    /\ state.tag = "NormalData" => state = NormalData(0)
    /\ state.data_start = 0

\* IAC WILL Echo has been parsed, which leaves the loop in NormalData(3), and
\* two later calls have each returned one data byte
C33_Witness ==
    /\ ~panicked
    /\ events = <<Event_Negotiation("Will", TelnetOption_parse(1), 2),
                  Event_Data(<<1>>, 3), Event_Data(<<1>>, 4)>>
    /\ state = NormalData(0)

(***************************************************************************)
(* The buffers of Telnet::process                                          *)
(***************************************************************************)
\* C34: Telnet::process never indexes outside its buffers: after any sequence
\* of transport reads of at most buf_size bytes each, no write to
\* process_buffer, no slice of append_data_to_proc_buffer or
\* copy_buffered_data and no subtraction has panicked, and
\* process_buffered_size is at most the length of process_buffer.
C34_ProcessInBounds ==
    /\ t_pc # "panic"
    /\ Len(process_buffer) <= t_cap

(***************************************************************************)
(* Agreement of two connected peers                                        *)
(***************************************************************************)
\* nothing is in flight between the peers
ChannelsEmpty == \A p \in Peers : x_chan[p] = <<>>

\* the him side of each peer and the us side of the other are both Yes or
\* both No
Agreed ==
    \A p \in Peers :
        /\ XState(p, FALSE) \in Stable
        /\ XState(p, FALSE) = XState(Other(p), TRUE)

\* C35: two NegotiationSM peers connected by reliable FIFO channels agree at
\* quiescence: from both sides No, for any interleaving of local requests and
\* deliveries, whenever both channels are empty the him state of a peer and
\* the us state of the other are equal and in {Yes, No}; and once the local
\* requests stop, the deliveries bring the peers to such a state for good.
C35_AgreeAtQuiescence ==
    /\ [](ChannelsEmpty => Agreed)
    /\ <>[](ChannelsEmpty /\ Agreed)

\* crossed requests have settled: neither peer allows the option, A has asked
\* to enable it and B has informed A that it is enabled, and both hold Yes
C35_Witness ==
    /\ ChannelsEmpty
    /\ x_req = 2
    /\ \A p \in Peers : ~x_allowed[p]
    /\ XState("A", FALSE) = "Yes" /\ XState("B", TRUE) = "Yes"
    /\ XState("A", TRUE) = "No" /\ XState("B", FALSE) = "No"

(***************************************************************************)
(* The events and the frame of the Q method operations                     *)
(***************************************************************************)
\* the number of events of a kind the last call pushed
HPushedCount(kind) ==
    Cardinality({k \in 1..Len(h_last.queue) : h_last.queue[k].kind = kind})

\* C36: the events track the automaton. In every step, for each side of the
\* option, the event that reports the side enabled (RemoteEnabled for him,
\* LocalShouldEnable for us) is pushed, once, exactly when the state of the
\* side becomes Yes from a different state, and the event that reports it
\* disabled exactly when the state becomes No from a different state; every
\* such event names the option. Hence at any time a side in Yes was last
\* reported enabled, and a side in No was last reported disabled or never
\* reported.
C36_EventsTrackState ==
    /\ h_last.op # "none" =>
          /\ \A side \in BOOLEAN :
                LET pre == get_state(h_last.pre_map, side, HOption)
                    post == get_state(h_map, side, HOption)
                IN  /\ HPushedCount(EnabledKind(side))
                          = IF post = "Yes" /\ pre # "Yes" THEN 1 ELSE 0
                    /\ HPushedCount(DisabledKind(side))
                          = IF post = "No" /\ pre # "No" THEN 1 ELSE 0
          /\ \A k \in 1..Len(h_last.queue) :
                h_last.queue[k].kind # "Error" => h_last.queue[k].opt = HOption
    /\ \A side \in BOOLEAN :
          /\ get_state(h_map, side, HOption) = "Yes" => h_seen[side] = "Enabled"
          /\ get_state(h_map, side, HOption) = "No" => h_seen[side] \in {"Disabled", "none"}

\* a WILL received in WantNoOpposite: the him side becomes Yes again and
\* RemoteEnabled is pushed after the Error, the us side having been
\* reported disabled
C36_Witness ==
    /\ h_last.op = "receive_will"
    /\ get_state(h_last.pre_map, FALSE, HOption) = "WantNoOpposite"
    /\ get_state(h_map, FALSE, HOption) = "Yes"
    /\ [k \in 1..Len(h_last.queue) |-> h_last.queue[k].kind] = <<"Error", "RemoteEnabled">>
    /\ h_seen[FALSE] = "Enabled"
    /\ h_seen[TRUE] = "Disabled"

\* the calls that work on the him side and on the us side
HimCalls == {"receive_will", "receive_wont", "ask_to_enable", "ask_to_disable"}
UsCalls == {"receive_do", "receive_dont", "inform_enabled", "inform_disable"}

\* C37: the Q method operations are framed per option and per side:
\* receive_will, receive_wont, ask_to_enable and ask_to_disable for option X
\* change at most the him state of X, and receive_do, receive_dont,
\* inform_enabled and inform_disable at most the us state of X; the other
\* side of X and both sides of every other option are unchanged. The entry of
\* an option is created only by a step that changes a state of that option,
\* and an option without an entry reads No on both sides.
C37_FramePerOptionAndSide ==
    /\ [](/\ q_last.op \in HimCalls => ~q_last.is_us
          /\ q_last.op \in UsCalls => q_last.is_us
          /\ q_last.op # "none" =>
                \A o \in QOptions, side \in BOOLEAN :
                    (o # q_last.opt \/ side # q_last.is_us) =>
                        get_state(q_map, side, o) = get_state(q_last.pre_map, side, o)
          /\ \A o \in QOptions :
                o \notin DOMAIN q_map =>
                    \A side \in BOOLEAN : get_state(q_map, side, o) = "No")
    /\ [][\A o \in QOptions :
             (o \in DOMAIN q_map' /\ o \notin DOMAIN q_map) =>
                 /\ o = q_last'.opt
                 /\ get_state(q_map', q_last'.is_us, o) # "No"]_vars

\* ask_to_enable on Echo while the us side of Echo is Yes and the other
\* option has no entry: only the him side of Echo has changed
C37_Witness ==
    /\ q_last.op = "ask_to_enable" /\ q_last.opt = <<"Echo">>
    /\ get_state(q_last.pre_map, FALSE, <<"Echo">>) = "No"
    /\ get_state(q_map, FALSE, <<"Echo">>) = "WantYesEmpty"
    /\ get_state(q_map, TRUE, <<"Echo">>) = "Yes"
    /\ UnknownOption(200) \notin DOMAIN q_map


(***************************************************************************)
(* User data through TelnetConnection::process                             *)
(***************************************************************************)
\* the payloads of the DataReceived events of evs, in order
DataReceivedPayload(evs) ==
    LET received == OfKind(evs, "DataReceived")
    IN  Flatten([k \in 1..Len(received) |-> received[k].msg])

\* the last buffer processed held data bytes and IAC IAC pairs only, and
\* process returned
DataProcessed ==
    /\ c_pc = "ready"
    /\ c_last.buffer # <<>>
    /\ \A k \in 1..Len(c_last.buffer) : c_last.buffer[k] \in {1, BYTE_IAC}
    /\ WellEscaped(c_last.buffer)

\* C38: every user-data byte is delivered in exactly one DataReceived event,
\* in stream order: after process has run on a buffer of data bytes and
\* IAC IAC pairs, the bytes held in the process buffer before the call and
\* the un-escaped bytes of the buffer are, in order, the payloads of the
\* DataReceived events pushed followed by the bytes still held in the
\* process buffer; no byte is delivered twice.
C38_DataDeliveredOnce ==
    DataProcessed =>
        DataReceivedPayload(c_last.queue) \o c_pb
            = c_last.pre_pb \o Collapse(c_last.buffer)


(***************************************************************************)
(* Termination of Telnet::read                                             *)
(***************************************************************************)
\* C39: a call of Telnet::read returns an event or an error whenever every
\* call it makes on the stream returns, also when transport reads return 0
\* bytes (the end of the stream) or bytes that complete no event: a call
\* that is inside its loop leaves it.
C39_ReadReturns == (t_pc = "read") ~> (t_pc # "read")

=============================================================================
